---- MODULE Spec2Model ----
(***************************************************************************)
(* Ranking analytics engine of the dashboard backend: the rank assignment  *)
(* script (app/data/rank.py), the three Excel loaders and the derived      *)
(* metric functions of app/services.                                       *)
(*                                                                         *)
(* Numbers.  score_norm is a float in [0,1]; it is kept here as an integer *)
(* count of 1e-5 units (ScoreScale = 1.0), so a gap percentage             *)
(* (winner - focal) * 100 is an integer count of 0.001 percentage points   *)
(* and round(x, 2) is a real rounding to a multiple of 10.  Arithmetic is  *)
(* exact: the binary rounding error of IEEE doubles is not represented.    *)
(***************************************************************************)
EXTENDS Integers, Sequences, FiniteSets

VARIABLES
    rawScores,   \* prod_source_scores_normalized.xlsx, the input of rank.py
    excel1,      \* prod_source_scores_normalized_ranked.xlsx (EXCEL_FILE_1)
    excel2,      \* Book1.xlsx (EXCEL_FILE_2)
    excel3,      \* products_without_amazon_with_citations.xlsx
    result,      \* outcome of the last operation that ran
    calls        \* the queries in flight: position, tables read, output

vars == <<rawScores, excel1, excel2, excel3, result, calls>>

(***************************************************************************)
(* Bounds of the model                                                     *)
(***************************************************************************)
MaxRivals == 2       \* competitor rows of the first category
MaxSmallScore == 1   \* score range of the exhaustive rank.py inputs
MaxTextLen == 5      \* tokens of an exhaustively drawn citation text
MaxSources == 16     \* marketplaces of a Product-Detail Table
MaxCatSize == 5      \* distinct products of a category
MaxInvest == 3       \* largest small products_to_add / citations_needed

(***************************************************************************)
(* Generic helpers                                                         *)
(***************************************************************************)
Range(s) == {s[i] : i \in DOMAIN s}

Min2(a, b) == IF a <= b THEN a ELSE b

Max2(a, b) == IF a >= b THEN a ELSE b

RECURSIVE SumSeq(_)
SumSeq(s) == IF s = <<>> THEN 0 ELSE Head(s) + SumSeq(Tail(s))

\* Stable sort of s by the strict order Before (list.sort / sorted /
\* DataFrame.sort_values): position = number of elements that go first.
StableSort(s, Before(_, _)) ==
    LET n == Len(s)
        pos(i) == 1 + Cardinality({j \in 1..n :
                        \/ Before(s[j], s[i])
                        \/ (~Before(s[i], s[j]) /\ j < i)})
    IN  [p \in 1..n |-> s[CHOOSE i \in 1..n : pos(i) = p]]

\* s[mask], a boolean-mask selection that keeps the row order.
FilterSeq(s, Keep(_)) ==
    LET idx == {i \in 1..Len(s) : Keep(s[i])}
        nth(p) == CHOOSE i \in idx : Cardinality({j \in idx : j <= i}) = p
    IN  [p \in 1..Cardinality(idx) |-> s[nth(p)]]

\* Series.unique(): the distinct values in order of first appearance.
RECURSIVE UniqueSeq(_)
UniqueSeq(s) ==
    IF s = <<>> THEN <<>>
    ELSE LET init == UniqueSeq(SubSeq(s, 1, Len(s) - 1))
             last == s[Len(s)]
         IN  IF last \in Range(init) THEN init ELSE Append(init, last)

\* s[:n] for n >= 0
Take(s, n) == SubSeq(s, 1, Min2(n, Len(s)))

(***************************************************************************)
(* Strings: their order and str.lower()                                    *)
(***************************************************************************)
\* The source names of the model in ascending str order ('A' < 'a').
SourceNames == <<"Amazon", "ajio", "amazon", "croma", "flipkart", "myntra", "nykaa", "snapdeal">>

\* The category names of the model in ascending str order.
CategoryNames == <<"Audio", "Games", "Toys">>

StrOrd(names, s) == CHOOSE i \in DOMAIN names : names[i] = s

StrLess(names, a, b) == StrOrd(names, a) < StrOrd(names, b)

\* str.lower() on the strings of the model
Lower(s) ==
    CASE s = "Amazon" -> "amazon"
      [] s = "Genuine" -> "genuine"
      [] OTHER -> s

IsAmazon(row) == Lower(row.source_normalized) = "amazon"

(***************************************************************************)
(* Files and data frames                                                   *)
(***************************************************************************)
NoFile == [exists |-> FALSE, columns |-> {}, rows |-> <<>>]

File(cols, rows) == [exists |-> TRUE, columns |-> cols, rows |-> rows]

RawColumns == {"Product", "source_normalized", "score_norm", "score_sum"}

RankedColumns == RawColumns \cup {"rank"}

Ok(op, v) == [op |-> op, args |-> <<>>, status |-> "ok", error |-> "", value |-> v]

Err(op, e) == [op |-> op, args |-> <<>>, status |-> "error", error |-> e, value |-> <<>>]

(***************************************************************************)
(* app/data/rank.py                                                        *)
(***************************************************************************)
RankBefore_NoScoreSum(a, b) ==
    \/ StrLess(CategoryNames, a.Product, b.Product)
    \/ /\ a.Product = b.Product
       /\ \/ a.score_norm > b.score_norm
          \/ /\ a.score_norm = b.score_norm
             /\ StrLess(SourceNames, a.source_normalized, b.source_normalized)

\* sort_values(by=[Product, score_norm, score_sum, source_normalized],
\*             ascending=[True, False, False, True])
RankBefore(a, b) ==
    \/ StrLess(CategoryNames, a.Product, b.Product)
    \/ /\ a.Product = b.Product
       /\ \/ a.score_norm > b.score_norm
          \/ /\ a.score_norm = b.score_norm
             /\ \/ a.score_sum > b.score_sum
                \/ /\ a.score_sum = b.score_sum
                   /\ StrLess(SourceNames, a.source_normalized, b.source_normalized)

\* groupby('Product').cumcount() + 1
CumCount(rows, i) == Cardinality({j \in 1..i : rows[j].Product = rows[i].Product})

RankScript(raw) ==
    LET df_sorted == StableSort(raw, RankBefore)
    IN  File(RankedColumns,
             [i \in 1..Len(df_sorted) |->
                 [Product |-> df_sorted[i].Product,
                  source_normalized |-> df_sorted[i].source_normalized,
                  score_norm |-> df_sorted[i].score_norm,
                  score_sum |-> df_sorted[i].score_sum,
                  rank |-> CumCount(df_sorted, i)]])

(***************************************************************************)
(* Rounding                                                                *)
(***************************************************************************)
\* n / d rounded to the nearest integer, halves to the even neighbour
\* (round() of Python 3), for d > 0.
RoundDiv(n, d) ==
    LET q == n \div d
        r == n % d
    IN  IF 2 * r > d THEN q + 1
        ELSE IF 2 * r < d THEN q
        ELSE IF q % 2 = 0 THEN q ELSE q + 1

\* round(x, 2) of a percentage held in 0.001 units: a multiple of 10.
Round2(x) == RoundDiv(x, 10) * 10

(***************************************************************************)
(* app/core/config.py                                                      *)
(***************************************************************************)
\* Settings.EXCEL_FILE_3 is a property that returns None.
EXCEL_FILE_3 == "None"

(***************************************************************************)
(* Loaders                                                                 *)
(***************************************************************************)
DataFrame(file) == [columns |-> file.columns, rows |-> file.rows]

RankingRequired == {"Product", "source_normalized", "rank"}

DetailsRequired == {"Product", "product_name", "source_normalized", "rank"}

\* analytics.load_ranking_data
LoadRankingData(file) ==
    IF ~file.exists THEN Err("load_ranking_data", "FileNotFoundError")
    ELSE IF RankingRequired \ file.columns # {}
         THEN Err("load_ranking_data", "ValueError")
    ELSE Ok("load_ranking_data", DataFrame(file))

\* analytics.load_product_details_data
LoadProductDetailsData(file) ==
    IF ~file.exists THEN Err("load_product_details_data", "FileNotFoundError")
    ELSE IF DetailsRequired \ file.columns # {}
         THEN Err("load_product_details_data", "ValueError")
    ELSE Ok("load_product_details_data", DataFrame(file))

\* insights_service.load_no_rank_data and additional_service.load_no_rank_data:
\* file_path = settings.EXCEL_FILE_3; file_path.exists() on None raises
\* AttributeError, otherwise the frame is returned without any column check.
LoadNoRankData(file) ==
    IF EXCEL_FILE_3 = "None" THEN Err("load_no_rank_data", "AttributeError")
    ELSE IF ~file.exists THEN Err("load_no_rank_data", "FileNotFoundError")
    ELSE Ok("load_no_rank_data", DataFrame(file))

\* df[col] on a frame without that column raises KeyError.
HasColumns(df, cols) == cols \subseteq df.columns

(***************************************************************************)
(* Frame helpers shared by the insight functions                           *)
(***************************************************************************)
\* df['Product'].unique()
Categories(df) == UniqueSeq([i \in 1..Len(df.rows) |-> df.rows[i].Product])

RankLess(a, b) == a.rank < b.rank

\* df[df['Product'] == category].sort_values('rank')
CatData(df, category) ==
    LET InCat(r) == r.Product = category
    IN  StableSort(FilterSeq(df.rows, InCat), RankLess)

AmazonData_EveryRow(cat_data) == cat_data

\* cat_data[cat_data['source_normalized'].str.lower() == 'amazon']
AmazonData(cat_data) == FilterSeq(cat_data, IsAmazon)

(***************************************************************************)
(* insights_service.calculate_overview_metrics                             *)
(***************************************************************************)
\* categories_not_rank_1 = total_categories - categories_rank_1
CategoriesNotRank1_AmazonOnly(total_categories, amazon_categories, categories_rank_1) ==
    amazon_categories - categories_rank_1

CategoriesNotRank1(total_categories, amazon_categories, categories_rank_1) ==
    total_categories - categories_rank_1

CalculateOverviewMetrics(file) ==
    LET loaded == LoadRankingData(file)
        df == loaded.value
        total_categories == Len(Categories(df))
        amazon_data == FilterSeq(df.rows, IsAmazon)
        amazon_categories ==
            Cardinality({amazon_data[i].Product : i \in 1..Len(amazon_data)})
        IsFirst(r) == r.rank = 1
        categories_rank_1 == Len(FilterSeq(amazon_data, IsFirst))
        \* percentages in 0.01 units, already rounded to 2 decimals
        visibility_score == RoundDiv(amazon_categories * 10000, total_categories)
        market_leadership_score == RoundDiv(categories_rank_1 * 10000, total_categories)
        rank_sum == SumSeq([i \in 1..Len(amazon_data) |-> amazon_data[i].rank])
    IN  IF loaded.status = "error" THEN Err("overview", loaded.error)
        ELSE IF ~HasColumns(df, {"Product", "source_normalized", "rank"})
             THEN Err("overview", "KeyError")
        ELSE IF total_categories = 0 THEN Err("overview", "ZeroDivisionError")
        ELSE Ok("overview",
                [visibility_score |-> visibility_score,
                 market_leadership_score |-> market_leadership_score,
                 average_ranking |->
                     IF amazon_data = <<>> THEN "nan"
                     ELSE RoundDiv(rank_sum * 100, Len(amazon_data)),
                 opportunity_gap |->
                     10000 - RoundDiv(categories_rank_1 * 10000, total_categories),
                 total_categories |-> total_categories,
                 categories_rank_1 |-> categories_rank_1,
                 categories_not_rank_1 |->
                     CategoriesNotRank1(total_categories, amazon_categories,
                                        categories_rank_1)])

(***************************************************************************)
(* insights_service.categorize_by_priority                                 *)
(***************************************************************************)
Severity_StrictCritical(gap_percentage) ==
    IF gap_percentage > 15000 THEN "Critical"
    ELSE IF gap_percentage >= 7000 THEN "Medium"
    ELSE "Low"

\* if gap >= 15: Critical / elif gap >= 7: Medium / else: Low
Severity(gap_percentage) ==
    IF gap_percentage >= 15000 THEN "Critical"
    ELSE IF gap_percentage >= 7000 THEN "Medium"
    ELSE "Low"

PriorityScore_NoCap(gap_percentage, amazon_rank) ==
    (gap_percentage * 2) + ((amazon_rank - 1) * 10000)

\* min(100, (gap_percentage * 2) + ((amazon_rank - 1) * 10))
PriorityScore(gap_percentage, amazon_rank) ==
    Min2(100000, (gap_percentage * 2) + ((amazon_rank - 1) * 10000))

\* The body of the loop for one category: <<>> when the category is skipped.
PriorityEntry(df, category) ==
    LET cat_data == CatData(df, category)
        winner == cat_data[1]
        amazon_data == AmazonData(cat_data)
        amazon_rank == amazon_data[1].rank
        amazon_score == amazon_data[1].score_norm
        gap_percentage == winner.score_norm - amazon_score
    IN  IF amazon_data # <<>> /\ amazon_rank > 1
        THEN <<[category |-> category,
                current_rank |-> amazon_rank,
                gap_percentage |-> Round2(gap_percentage),
                competitor |-> winner.source_normalized,
                competitor_score |-> winner.score_norm,
                amazon_score |-> amazon_score,
                priority_score |-> Round2(PriorityScore(gap_percentage, amazon_rank)),
                severity |-> Severity(gap_percentage)]>>
        ELSE <<>>

RECURSIVE PriorityEntries(_, _)
PriorityEntries(df, cats) ==
    IF cats = <<>> THEN <<>>
    ELSE PriorityEntry(df, Head(cats)) \o PriorityEntries(df, Tail(cats))

\* sorted(bucket, key=lambda x: -x['gap_percentage'])
GapDescending(a, b) == a.gap_percentage > b.gap_percentage

CategorizeByPriority(file) ==
    LET loaded == LoadRankingData(file)
        df == loaded.value
        entries == PriorityEntries(df, Categories(df))
        IsCritical(e) == e.severity = "Critical"
        IsMedium(e) == e.severity = "Medium"
        IsLow(e) == e.severity = "Low"
    IN  IF loaded.status = "error" THEN Err("priority", loaded.error)
        ELSE IF ~HasColumns(df, {"Product", "source_normalized", "rank", "score_norm"})
             THEN Err("priority", "KeyError")
        ELSE Ok("priority",
                [critical |-> StableSort(FilterSeq(entries, IsCritical), GapDescending),
                 medium |-> StableSort(FilterSeq(entries, IsMedium), GapDescending),
                 low |-> StableSort(FilterSeq(entries, IsLow), GapDescending)])

(***************************************************************************)
(* additional_service.predict_rank_movement                                *)
(***************************************************************************)
\* round(x, 1) of a percentage held in 0.001 units: a multiple of 100.
Round1(x) == RoundDiv(x, 100) * 100

\* roi_multiplier in 0.01 units: round(revenue_impact * 12 / investment, 2)
RoiMultiplier(revenue_impact, investment) ==
    IF investment > 0 THEN RoundDiv(revenue_impact * 12 * 100, investment) ELSE 0

NewEntryPredictedScore_NoCap(products_to_add, citations_needed) ==
    products_to_add * 3000 + citations_needed * 2000

\* min(1.0, products_to_add * 0.03 + citations_needed * 0.02)
NewEntryPredictedScore(products_to_add, citations_needed) ==
    Min2(100000, products_to_add * 3000 + citations_needed * 2000)

\* Lines 590-642: the focal source has no row in the category.
NewEntryPredictedRank_Unclamped(rows, better_than) == rows - better_than + 1

\* predicted_rank = len(cat_data) - better_than + 1
\* predicted_rank = max(1, min(predicted_rank, len(cat_data)))
NewEntryPredictedRank(rows, better_than) ==
    Max2(1, Min2(rows - better_than + 1, rows))

PredictNewEntry(cat_data, category, products_to_add, citations_needed) ==
    LET IsFirst(r) == r.rank = 1
        rank_1_data == FilterSeq(cat_data, IsFirst)
        rank_1_score == IF rank_1_data # <<>> THEN rank_1_data[1].score_norm ELSE 100000
        current_rank == Len(cat_data) + 1
        predicted_score == NewEntryPredictedScore(products_to_add, citations_needed)
        Weaker(r) == r.score_norm < predicted_score
        better_than == Len(FilterSeq(cat_data, Weaker))
        predicted_rank == NewEntryPredictedRank(Len(cat_data), better_than)
        revenue_impact == products_to_add * 5000 + (current_rank - predicted_rank) * 10000
        investment == products_to_add * 2000 + citations_needed * 5000
    IN  [category |-> category,
         branch |-> "new_entry",
         current_rank |-> current_rank,
         predicted_rank |-> predicted_rank,
         predicted_score |-> predicted_score,
         gap_reduction |-> Round1(rank_1_score - predicted_score),
         citations_needed |-> citations_needed,
         products_to_add |-> products_to_add,
         estimated_timeline_months |->
             Max2(6, (3 * products_to_add + 4 * citations_needed) \div 6),
         revenue_impact_monthly |-> revenue_impact,
         investment_required |-> investment,
         roi_multiplier |-> RoiMultiplier(revenue_impact, investment)]

ExistingPredictedRank_Ceiling(current_rank, current_score, predicted_score) ==
    Max2(1, current_rank - ((predicted_score - current_score + 4999) \div 5000))

\* max(1, current_rank - int((predicted_score - current_score) / 0.05));
\* int() truncates towards zero.
ExistingPredictedRank(current_rank, current_score, predicted_score) ==
    LET diff == predicted_score - current_score
        steps == IF diff >= 0 THEN diff \div 5000 ELSE -((-diff) \div 5000)
    IN  Max2(1, current_rank - steps)

\* Lines 644-688: the focal source has a row in the category.
PredictExisting(cat_data, amazon_data, category, products_to_add, citations_needed) ==
    LET IsFirst(r) == r.rank = 1
        current_rank == amazon_data[1].rank
        current_score == amazon_data[1].score_norm
        rank_1_score == FilterSeq(cat_data, IsFirst)[1].score_norm
        predicted_score ==
            Min2(100000, current_score + products_to_add * 2000 + citations_needed * 1000)
        predicted_rank == ExistingPredictedRank(current_rank, current_score, predicted_score)
        revenue_impact == products_to_add * 8000 + (current_rank - predicted_rank) * 15000
        investment == products_to_add * 2000 + citations_needed * 5000
    IN  [category |-> category,
         branch |-> "existing",
         current_rank |-> current_rank,
         predicted_rank |-> predicted_rank,
         predicted_score |-> predicted_score,
         gap_reduction |-> Round1(rank_1_score - predicted_score),
         citations_needed |-> citations_needed,
         products_to_add |-> products_to_add,
         estimated_timeline_months |->
             Max2(3, (2 * products_to_add + 3 * citations_needed) \div 6),
         revenue_impact_monthly |-> revenue_impact,
         investment_required |-> investment,
         roi_multiplier |-> RoiMultiplier(revenue_impact, investment)]

CategoryNotFound_Never(cat_data) == FALSE

\* if cat_data.empty: raise ValueError(f"Category not found: {category}")
CategoryNotFound(cat_data) == cat_data = <<>>

PredictRankMovement(file, category, products_to_add, citations_needed) ==
    LET loaded == LoadRankingData(file)
        df_rankings == loaded.value
        InCat(r) == r.Product = category
        cat_data == FilterSeq(df_rankings.rows, InCat)
        amazon_data == AmazonData(cat_data)
    IN  IF loaded.status = "error" THEN Err("predict", loaded.error)
        ELSE IF ~HasColumns(df_rankings, {"Product"}) THEN Err("predict", "KeyError")
        ELSE IF CategoryNotFound(cat_data) THEN Err("predict", "ValueError")
        ELSE IF ~HasColumns(df_rankings, {"source_normalized", "rank", "score_norm"})
             THEN Err("predict", "KeyError")
        ELSE IF amazon_data = <<>>
             THEN Ok("predict", PredictNewEntry(cat_data, category,
                                                products_to_add, citations_needed))
        ELSE Ok("predict", PredictExisting(cat_data, amazon_data, category,
                                           products_to_add, citations_needed))

(***************************************************************************)
(* Citation text.  A text is a sequence of tokens; a token is a run of     *)
(* characters that the patterns below treat alike.  "http:" and "https:"   *)
(* are the scheme with its colon, "/" one slash, " " white space, "]", "[",*)
(* "?" and "#" themselves, "www." those four characters; every other token *)
(* is a run of ordinary host characters.                                   *)
(***************************************************************************)
Schemes == {"http:", "https:"}

\* [^\s/\]] of additional_service: what ends the captured host
HostStops == {" ", "/", "]"}

\* [^\s\]] of insights_service: what ends the matched URL
UrlStops == {" ", "]"}

\* End (exclusive) of the longest run from position i without a token of stops.
RECURSIVE RunEnd(_, _, _)
RunEnd(text, i, stops) ==
    IF i > Len(text) \/ text[i] \in stops THEN i ELSE RunEnd(text, i + 1, stops)

\* https?:// matches at position i
SchemeAt(text, i) ==
    /\ i + 2 <= Len(text)
    /\ text[i] \in Schemes
    /\ text[i + 1] = "/"
    /\ text[i + 2] = "/"

\* re.findall(r'https?://([^\s/\]]+)', text): the captured hosts, scanning
\* from position i and resuming after each match.
RECURSIVE FindHosts(_, _)
FindHosts(text, i) ==
    IF i > Len(text) THEN <<>>
    ELSE IF SchemeAt(text, i) /\ RunEnd(text, i + 3, HostStops) > i + 3
         THEN <<SubSeq(text, i + 3, RunEnd(text, i + 3, HostStops) - 1)>>
              \o FindHosts(text, RunEnd(text, i + 3, HostStops))
    ELSE FindHosts(text, i + 1)

\* host.replace('www.', ''): every occurrence is removed
ReplaceWww(host) ==
    LET NotWww(t) == t # "www."
    IN  FilterSeq(host, NotWww)

\* A cell of the Citations column: NaN or a text.
NaN == [isna |-> TRUE, text |-> <<>>]

Cell(text) == [isna |-> FALSE, text |-> text]

\* additional_service.extract_domains_from_citations
RECURSIVE ExtractDomainsFromCitations(_)
ExtractDomainsFromCitations(citations_series) ==
    IF citations_series = <<>> THEN <<>>
    ELSE LET citation == Head(citations_series)
             urls == FindHosts(citation.text, 1)
         IN  (IF citation.isna THEN <<>>
              ELSE [k \in 1..Len(urls) |-> ReplaceWww(urls[k])])
             \o ExtractDomainsFromCitations(Tail(citations_series))

(***************************************************************************)
(* additional_service.calculate_citation_visibility                        *)
(***************************************************************************)
\* Host tokens whose lower-cased characters contain "amazon".
AmazonTokens == {"amazon.in", "Amazon.com"}

\* 'amazon' in domain.lower()
MentionsAmazon(domain) == \E k \in 1..Len(domain) : domain[k] \in AmazonTokens

\* Counter(all_domains).items(): one <<domain, count>> per distinct domain,
\* in order of first occurrence.
DomainCounts(all_domains) ==
    LET domains == UniqueSeq(all_domains)
    IN  [k \in 1..Len(domains) |->
            [domain |-> domains[k],
             count |-> Cardinality({j \in 1..Len(all_domains) :
                                       all_domains[j] = domains[k]})]]

\* Counter.most_common: descending by count, equal counts in order of first
\* occurrence.
CountDescending(a, b) == a.count > b.count

\* A quotient that the code leaves unrounded, kept as numerator and
\* denominator; the constant 0 of the else branches is 0 / 1.
Quotient(n, d) == [num |-> n, den |-> d]

TopSourcesLimit == 20

SourceBreakdownLimit == 15

\* (competitor_mentions / amazon_mentions) if amazon_mentions > 0 else 0
VisibilityRatio(amazon_mentions, competitor_mentions) ==
    IF amazon_mentions > 0 THEN Quotient(competitor_mentions, amazon_mentions)
    ELSE Quotient(0, 1)

CitationVisibility(all_domains) ==
    LET domain_counts == DomainCounts(all_domains)
        IsFocal(e) == MentionsAmazon(e.domain)
        IsOther(e) == ~MentionsAmazon(e.domain)
        focal == FilterSeq(domain_counts, IsFocal)
        other == FilterSeq(domain_counts, IsOther)
        amazon_mentions == SumSeq([k \in 1..Len(focal) |-> focal[k].count])
        competitor_mentions == SumSeq([k \in 1..Len(other) |-> other[k].count])
        total_citations == amazon_mentions + competitor_mentions
        most_common == StableSort(domain_counts, CountDescending)
        top15 == Take(most_common, SourceBreakdownLimit)
    IN  [amazon_mentions |-> amazon_mentions,
         competitor_mentions |-> competitor_mentions,
         total_citations |-> total_citations,
         amazon_percentage |->
             IF total_citations > 0 THEN Quotient(amazon_mentions * 100, total_citations)
             ELSE Quotient(0, 1),
         competitor_percentage |->
             IF total_citations > 0
             THEN Quotient(competitor_mentions * 100, total_citations)
             ELSE Quotient(0, 1),
         visibility_ratio |-> VisibilityRatio(amazon_mentions, competitor_mentions),
         top_sources |->
             [k \in 1..Min2(TopSourcesLimit, Len(most_common)) |->
                 [source |-> most_common[k].domain, count |-> most_common[k].count]],
         source_breakdown |->
             [k \in 1..Len(top15) |->
                 [domain |-> top15[k].domain,
                  amazon |-> IF MentionsAmazon(top15[k].domain) THEN top15[k].count ELSE 0,
                  competitors |-> IF ~MentionsAmazon(top15[k].domain)
                                  THEN top15[k].count ELSE 0]]]

CalculateCitationVisibility(file) ==
    LET loaded == LoadNoRankData(file)
        df_no_rank == loaded.value
    IN  IF loaded.status = "error" THEN Err("citation_visibility", loaded.error)
        ELSE IF ~HasColumns(df_no_rank, {"Citations"})
             THEN Err("citation_visibility", "KeyError")
        ELSE Ok("citation_visibility",
                CitationVisibility(ExtractDomainsFromCitations(
                    [i \in 1..Len(df_no_rank.rows) |-> df_no_rank.rows[i].citations])))

(***************************************************************************)
(* insights_service.extract_citation_sources                               *)
(***************************************************************************)
\* re.findall(r'https?://[^\s\]]+', text): the matched URLs without their
\* scheme and "//".
RECURSIVE FindUrls(_, _)
FindUrls(text, i) ==
    IF i > Len(text) THEN <<>>
    ELSE IF SchemeAt(text, i) /\ RunEnd(text, i + 3, UrlStops) > i + 3
         THEN <<SubSeq(text, i + 3, RunEnd(text, i + 3, UrlStops) - 1)>>
              \o FindUrls(text, RunEnd(text, i + 3, UrlStops))
    ELSE FindUrls(text, i + 1)

\* urlparse(url).netloc: what follows "//" up to the first "/", "?" or "#"
Netloc(rest) == SubSeq(rest, 1, RunEnd(rest, 1, {"/", "?", "#"}) - 1)

\* urlparse raises ValueError("Invalid IPv6 URL") for a netloc with one
\* bracket only; the pattern never lets "]" into the URL.
UrlparseRaises(rest) == "[" \in Range(Netloc(rest))

\* Lines 320-327 for one row: the domains counted, in order; a URL that
\* urlparse rejects is skipped by the bare except.
RowDomains(row) ==
    LET urls == FindUrls(row.citations.text, 1)
        Parses(u) == ~UrlparseRaises(u)
        parsed == FilterSeq(urls, Parses)
    IN  IF row.citations.isna THEN <<>>
        ELSE [k \in 1..Len(parsed) |-> ReplaceWww(Netloc(parsed[k]))]

\* <<domain, category>> for every counted URL of the table, in row order.
RECURSIVE DomainMentions(_)
DomainMentions(rows) ==
    IF rows = <<>> THEN <<>>
    ELSE LET ds == RowDomains(Head(rows))
         IN  [k \in 1..Len(ds) |-> [domain |-> ds[k], category |-> Head(rows).category]]
             \o DomainMentions(Tail(rows))

ImpactDescending(a, b) == a.impact_score > b.impact_score

\* Lines 329-341: one entry per domain in order of first mention, then
\* citations.sort(key=lambda x: -x['impact_score']).  impact_score is kept
\* in 0.1 units: frequency * 7 + categories * 3.
AllCitationSources(rows) ==
    LET mentions == DomainMentions(rows)
        domains == UniqueSeq([k \in 1..Len(mentions) |-> mentions[k].domain])
        Count(d) == Cardinality({k \in 1..Len(mentions) : mentions[k].domain = d})
        Cats(d) == {mentions[k].category : k \in {j \in 1..Len(mentions) :
                                                     mentions[j].domain = d}}
        citations == [k \in 1..Len(domains) |->
                        [domain |-> domains[k],
                         frequency |-> Count(domains[k]),
                         categories |-> Cats(domains[k]),
                         impact_score |-> Count(domains[k]) * 7
                                            + Cardinality(Cats(domains[k])) * 3]]
    IN  StableSort(citations, ImpactDescending)

\* return citations[:50]
ServiceTopSources == 50

ExtractCitationSources(file) ==
    LET loaded == LoadNoRankData(file)
        df == loaded.value
    IN  IF loaded.status = "error" THEN Err("citation_sources", loaded.error)
        ELSE IF ~HasColumns(df, {"Citations", "Product Category"})
             THEN Err("citation_sources", "KeyError")
        ELSE Ok("citation_sources", Take(AllCitationSources(df.rows), ServiceTopSources))

\* insights_router.get_citation_sources: sources[:top_n]; an error becomes
\* the HTTP 500 answer.
GetCitationSources(file, top_n) ==
    LET sources == ExtractCitationSources(file)
    IN  IF sources.status = "error" THEN sources
        ELSE Ok("citation_sources", Take(sources.value, top_n))

(***************************************************************************)
(* additional_service.calculate_trust_signals.  The extra text of a row is *)
(* a sequence of words; joining rows with ' ' concatenates the sequences,  *)
(* and a keyword is the sequence of its words.                             *)
(***************************************************************************)
positive_keywords ==
    <<<<"genuine">>, <<"authentic">>, <<"verified">>, <<"trusted">>, <<"excellent">>,
      <<"fast", "delivery">>, <<"quality">>>>

negative_keywords ==
    <<<<"fake">>, <<"counterfeit">>, <<"delayed">>, <<"poor", "quality">>, <<"scam">>,
      <<"fraud">>>>

\* all_text.count(keyword)
CountKeyword(all_text, keyword) ==
    Cardinality({i \in 1..Len(all_text) :
        /\ i + Len(keyword) - 1 <= Len(all_text)
        /\ SubSeq(all_text, i, i + Len(keyword) - 1) = keyword})

\* sum(item['count'] for item in found): keywords with count 0 add nothing
KeywordTotal(all_text, keywords) ==
    SumSeq([k \in 1..Len(keywords) |-> CountKeyword(all_text, keywords[k])])

\* ' '.join(mp_data['extra'].astype(str).str.lower())
RECURSIVE JoinLower(_)
JoinLower(mp_data) ==
    IF mp_data = <<>> THEN <<>>
    ELSE [k \in 1..Len(Head(mp_data).extra) |-> Lower(Head(mp_data).extra[k])]
         \o JoinLower(Tail(mp_data))

\* round((total_positive / total_mentions * 100) if total_mentions > 0
\*       else 50.0, 1), in 0.1 units
TrustScore(total_positive, total_mentions) ==
    IF total_mentions > 0 THEN RoundDiv(total_positive * 1000, total_mentions) ELSE 500

\* df_details['source_normalized'].unique()[:15]
TrustMarketplaceLimit == 15

TrustMarketplaces_All(rows) ==
    UniqueSeq([i \in 1..Len(rows) |-> rows[i].source_normalized])

TrustMarketplaces(rows) ==
    Take(UniqueSeq([i \in 1..Len(rows) |-> rows[i].source_normalized]),
         TrustMarketplaceLimit)

TrustSignal(rows, marketplace) ==
    LET OfMarketplace(r) == r.source_normalized = marketplace
        all_text == JoinLower(FilterSeq(rows, OfMarketplace))
        total_positive == KeywordTotal(all_text, positive_keywords)
        total_negative == KeywordTotal(all_text, negative_keywords)
        total_mentions == total_positive + total_negative
    IN  [marketplace |-> marketplace,
         trust_score |-> TrustScore(total_positive, total_mentions),
         total_mentions |-> total_mentions]

\* trust_signals.sort(key=lambda x: -x['trust_score'])
TrustDescending(a, b) == a.trust_score > b.trust_score

CalculateTrustSignals(file) ==
    LET loaded == LoadProductDetailsData(file)
        df_details == loaded.value
        marketplaces == TrustMarketplaces(df_details.rows)
    IN  IF loaded.status = "error" THEN Err("trust_signals", loaded.error)
        ELSE IF ~HasColumns(df_details, {"source_normalized", "extra"})
             THEN Err("trust_signals", "KeyError")
        ELSE Ok("trust_signals",
                StableSort([k \in 1..Len(marketplaces) |->
                               TrustSignal(df_details.rows, marketplaces[k])],
                           TrustDescending))

(***************************************************************************)
(* insights_service.generate_performance_quadrants                         *)
(***************************************************************************)
\* df_details.groupby('Product')['product_name'].nunique().to_dict(),
\* read with category_sizes.get(category, default)
CategorySize(df_details, category, default) ==
    LET names == {df_details.rows[i].product_name :
                     i \in {j \in 1..Len(df_details.rows) :
                               df_details.rows[j].Product = category}}
    IN  IF names = {} THEN default ELSE Cardinality(names)

HighScore_Strict(amazon_score) == amazon_score > 15000

\* high_score = amazon_score >= 0.15
HighScore(amazon_score) == amazon_score >= 15000

\* high_importance = category_size >= 3
HighImportance(category_size) == category_size >= 3

Quadrant(high_score, high_importance) ==
    IF high_score /\ high_importance THEN "Stars"
    ELSE IF ~high_score /\ high_importance THEN "Question Marks"
    ELSE IF high_score /\ ~high_importance THEN "Cash Cows"
    ELSE "Dogs"

QuadrantEntry(df_rankings, df_details, category) ==
    LET InCat(r) == r.Product = category
        cat_data == FilterSeq(df_rankings.rows, InCat)
        amazon_data == AmazonData(cat_data)
        amazon_score == amazon_data[1].score_norm
        category_size == CategorySize(df_details, category, 1)
    IN  IF amazon_data # <<>>
        THEN <<[category |-> category,
                amazon_score |-> amazon_score,
                category_size |-> category_size,
                amazon_rank |-> amazon_data[1].rank,
                quadrant |-> Quadrant(HighScore(amazon_score),
                                      HighImportance(category_size))]>>
        ELSE <<>>

RECURSIVE QuadrantEntries(_, _, _)
QuadrantEntries(df_rankings, df_details, cats) ==
    IF cats = <<>> THEN <<>>
    ELSE QuadrantEntry(df_rankings, df_details, Head(cats))
         \o QuadrantEntries(df_rankings, df_details, Tail(cats))

GeneratePerformanceQuadrants(file1, file2) ==
    LET rankings == LoadRankingData(file1)
        details == LoadProductDetailsData(file2)
        df_rankings == rankings.value
        df_details == details.value
    IN  IF rankings.status = "error" THEN Err("quadrants", rankings.error)
        ELSE IF details.status = "error" THEN Err("quadrants", details.error)
        ELSE IF ~HasColumns(df_rankings, {"Product", "source_normalized", "rank",
                                          "score_norm"})
             THEN Err("quadrants", "KeyError")
        ELSE Ok("quadrants",
                QuadrantEntries(df_rankings, df_details, Categories(df_rankings)))

(***************************************************************************)
(* insights_service.generate_category_heatmap                              *)
(***************************************************************************)
\* round(x, 4) of a score held in 1e-5 units: a multiple of 10.
Round4(x) == RoundDiv(x, 10) * 10

\* sorted(df['Product'].unique())
SortedCategories(df) ==
    LET NameLess(a, b) == StrLess(CategoryNames, a, b)
    IN  StableSort(Categories(df), NameLess)

GapToFirst_FocalMinusWinner(winner_score, amazon_score, amazon_rank) ==
    IF amazon_rank > 1 THEN amazon_score - winner_score ELSE 0

\* float(winner['score_norm'] - amazon_score) if amazon_rank > 1 else 0.0
GapToFirst(winner_score, amazon_score, amazon_rank) ==
    IF amazon_rank > 1 THEN winner_score - amazon_score ELSE 0

StatusColor_YellowBelowThree(amazon_rank) ==
    IF amazon_rank = 1 THEN "green"
    ELSE IF amazon_rank < 3 THEN "yellow"
    ELSE IF amazon_rank <= 5 THEN "orange"
    ELSE "red"

StatusColor(amazon_rank) ==
    IF amazon_rank = 1 THEN "green"
    ELSE IF amazon_rank <= 3 THEN "yellow"
    ELSE IF amazon_rank <= 5 THEN "orange"
    ELSE "red"

HeatmapEntry(df, category) ==
    LET cat_data == CatData(df, category)
        winner == cat_data[1]
        amazon_data == AmazonData(cat_data)
        amazon_rank == amazon_data[1].rank
        amazon_score == amazon_data[1].score_norm
        gap_to_first == GapToFirst(winner.score_norm, amazon_score, amazon_rank)
    IN  IF amazon_data # <<>>
        THEN <<[category |-> category,
                amazon_rank |-> amazon_rank,
                amazon_score |-> Round4(amazon_score),
                gap_to_first |-> Round4(gap_to_first),
                competitor_name |-> IF amazon_rank > 1 THEN winner.source_normalized
                                    ELSE "Amazon",
                status_color |-> StatusColor(amazon_rank)]>>
        ELSE <<>>

RECURSIVE HeatmapEntries(_, _)
HeatmapEntries(df, cats) ==
    IF cats = <<>> THEN <<>>
    ELSE HeatmapEntry(df, Head(cats)) \o HeatmapEntries(df, Tail(cats))

GenerateCategoryHeatmap(file) ==
    LET loaded == LoadRankingData(file)
        df == loaded.value
    IN  IF loaded.status = "error" THEN Err("heatmap", loaded.error)
        ELSE IF ~HasColumns(df, {"Product", "source_normalized", "rank", "score_norm"})
             THEN Err("heatmap", "KeyError")
        ELSE Ok("heatmap", HeatmapEntries(df, SortedCategories(df)))

(***************************************************************************)
(* insights_service.identify_quick_wins                                    *)
(***************************************************************************)


QuickWinEligible_AnyRank(amazon_rank, gap_percentage) ==
    amazon_rank > 1 /\ gap_percentage < 15000

\* amazon_rank in [2, 3] and gap_percentage < 15
QuickWinEligible(amazon_rank, gap_percentage) ==
    amazon_rank \in {2, 3} /\ gap_percentage < 15000

QuickWinActions(gap_percentage) ==
    IF gap_percentage < 5000
    THEN <<"Increase product variety", "Optimize pricing">>
    ELSE IF gap_percentage < 10000
    THEN <<"Expand product catalog", "Improve delivery speed", "Enhance reviews">>
    ELSE <<"Strategic pricing review", "Marketing push", "Partnership opportunities">>

QuickWinEffort(gap_percentage) ==
    IF gap_percentage < 5000 THEN "Low" ELSE "Medium"

QuickWinEntry(df, category) ==
    LET cat_data == CatData(df, category)
        winner == cat_data[1]
        amazon_data == AmazonData(cat_data)
        amazon_rank == amazon_data[1].rank
        amazon_score == amazon_data[1].score_norm
        gap_percentage == winner.score_norm - amazon_score
    IN  IF amazon_data # <<>> /\ QuickWinEligible(amazon_rank, gap_percentage)
        THEN <<[category |-> category,
                current_rank |-> amazon_rank,
                gap_percentage |-> Round2(gap_percentage),
                competitor |-> winner.source_normalized,
                action_items |-> QuickWinActions(gap_percentage),
                estimated_effort |-> QuickWinEffort(gap_percentage)]>>
        ELSE <<>>

RECURSIVE QuickWinEntries(_, _)
QuickWinEntries(df, cats) ==
    IF cats = <<>> THEN <<>>
    ELSE QuickWinEntry(df, Head(cats)) \o QuickWinEntries(df, Tail(cats))

\* quick_wins.sort(key=lambda x: x['gap_percentage'])
GapAscending(a, b) == a.gap_percentage < b.gap_percentage

IdentifyQuickWins(file) ==
    LET loaded == LoadRankingData(file)
        df == loaded.value
    IN  IF loaded.status = "error" THEN Err("quick_wins", loaded.error)
        ELSE IF ~HasColumns(df, {"Product", "source_normalized", "rank", "score_norm"})
             THEN Err("quick_wins", "KeyError")
        ELSE Ok("quick_wins",
                StableSort(QuickWinEntries(df, Categories(df)), GapAscending))

(***************************************************************************)
(* insights_service.identify_battlegrounds                                 *)
(***************************************************************************)
\* 7 <= gap_percentage <= 20 for a focal row below rank 1
IsBattleground(amazon_rank, gap_percentage) ==
    amazon_rank > 1 /\ 7000 <= gap_percentage /\ gap_percentage <= 20000

ProductVolume_HighAboveFive(product_count) ==
    IF product_count > 5 THEN "High"
    ELSE IF product_count >= 3 THEN "Medium"
    ELSE "Low"

\* product_volume and investment_priority are assigned together
ProductVolume(product_count) ==
    IF product_count >= 5 THEN "High"
    ELSE IF product_count >= 3 THEN "Medium"
    ELSE "Low"

\* priority_order = {'High': 3, 'Medium': 2, 'Low': 1}
priority_order(level) ==
    CASE level = "High" -> 3
      [] level = "Medium" -> 2
      [] level = "Low" -> 1

BattlegroundEntry(df_rankings, df_details, category) ==
    LET cat_data == CatData(df_rankings, category)
        winner == cat_data[1]
        amazon_data == AmazonData(cat_data)
        amazon_rank == amazon_data[1].rank
        amazon_score == amazon_data[1].score_norm
        product_count == CategorySize(df_details, category, 0)
        gap_percentage == winner.score_norm - amazon_score
    IN  IF amazon_data # <<>> /\ IsBattleground(amazon_rank, gap_percentage)
        THEN <<[category |-> category,
                amazon_rank |-> amazon_rank,
                gap_percentage |-> Round2(gap_percentage),
                competitor |-> winner.source_normalized,
                product_volume |-> ProductVolume(product_count),
                investment_priority |-> ProductVolume(product_count)]>>
        ELSE <<>>

RECURSIVE BattlegroundEntries(_, _, _)
BattlegroundEntries(df_rankings, df_details, cats) ==
    IF cats = <<>> THEN <<>>
    ELSE BattlegroundEntry(df_rankings, df_details, Head(cats))
         \o BattlegroundEntries(df_rankings, df_details, Tail(cats))

\* key=lambda x: (-priority_order[x['investment_priority']], -x['gap_percentage'])
BattlegroundBefore(a, b) ==
    \/ priority_order(a.investment_priority) > priority_order(b.investment_priority)
    \/ /\ priority_order(a.investment_priority) = priority_order(b.investment_priority)
       /\ a.gap_percentage > b.gap_percentage

IdentifyBattlegrounds(file1, file2) ==
    LET rankings == LoadRankingData(file1)
        details == LoadProductDetailsData(file2)
        df_rankings == rankings.value
        df_details == details.value
    IN  IF rankings.status = "error" THEN Err("battlegrounds", rankings.error)
        ELSE IF details.status = "error" THEN Err("battlegrounds", details.error)
        ELSE IF ~HasColumns(df_rankings, {"Product", "source_normalized", "rank",
                                          "score_norm"})
             THEN Err("battlegrounds", "KeyError")
        ELSE Ok("battlegrounds",
                StableSort(BattlegroundEntries(df_rankings, df_details,
                                               Categories(df_rankings)),
                           BattlegroundBefore))

(***************************************************************************)
(* insights_service.analyze_competitor_threats                             *)
(***************************************************************************)
CompetitorWin_WithoutFocalRow(df, category) ==
    LET winner == CatData(df, category)[1]
    IN  IF Lower(winner.source_normalized) # "amazon"
        THEN <<[competitor |-> winner.source_normalized, category |-> category,
                gap |-> 0]>>
        ELSE <<>>

\* One appended win, <<>> when the category records none.
CompetitorWin(df, category) ==
    LET cat_data == CatData(df, category)
        winner == cat_data[1]
        amazon_data == AmazonData(cat_data)
    IN  IF amazon_data # <<>> /\ Lower(winner.source_normalized) # "amazon"
        THEN <<[competitor |-> winner.source_normalized,
                category |-> category,
                gap |-> winner.score_norm - amazon_data[1].score_norm]>>
        ELSE <<>>

RECURSIVE CompetitorWins(_, _)
CompetitorWins(df, cats) ==
    IF cats = <<>> THEN <<>>
    ELSE CompetitorWin(df, Head(cats)) \o CompetitorWins(df, Tail(cats))

ThreatLevel_OnRoundedAverage(gap_sum, n) ==
    LET average == RoundDiv(gap_sum, 10 * n) * 10
    IN  IF average >= 15000 THEN "Critical"
        ELSE IF average >= 10000 THEN "High"
        ELSE IF average >= 5000 THEN "Medium"
        ELSE "Low"

\* The if/elif chain on average_gap = gap_sum / n, before it is rounded.
ThreatLevel(gap_sum, n) ==
    IF gap_sum >= 15000 * n THEN "Critical"
    ELSE IF gap_sum >= 10000 * n THEN "High"
    ELSE IF gap_sum >= 5000 * n THEN "Medium"
    ELSE "Low"

Threat(all_wins, competitor) ==
    LET Mine(w) == w.competitor = competitor
        wins == FilterSeq(all_wins, Mine)
        categories_dominated == Len(wins)
        gap_sum == SumSeq([i \in 1..Len(wins) |-> wins[i].gap])
    IN  [competitor_name |-> competitor,
         categories_dominated |-> categories_dominated,
         average_gap_percentage |-> RoundDiv(gap_sum, 10 * categories_dominated) * 10,
         total_wins |-> categories_dominated,
         threat_level |-> ThreatLevel(gap_sum, categories_dominated),
         dominated_categories |-> [i \in 1..Len(wins) |-> wins[i].category]]

\* key=lambda x: (-x['categories_dominated'], -x['average_gap_percentage'])
ThreatBefore(a, b) ==
    \/ a.categories_dominated > b.categories_dominated
    \/ /\ a.categories_dominated = b.categories_dominated
       /\ a.average_gap_percentage > b.average_gap_percentage

AnalyzeCompetitorThreats(file) ==
    LET loaded == LoadRankingData(file)
        df == loaded.value
        all_wins == CompetitorWins(df, Categories(df))
        competitors == UniqueSeq([i \in 1..Len(all_wins) |-> all_wins[i].competitor])
    IN  IF loaded.status = "error" THEN Err("threats", loaded.error)
        ELSE IF ~HasColumns(df, {"Product", "source_normalized", "rank", "score_norm"})
             THEN Err("threats", "KeyError")
        ELSE Ok("threats",
                StableSort([i \in 1..Len(competitors) |->
                               Threat(all_wins, competitors[i])],
                           ThreatBefore))

(***************************************************************************)
(* insights_service.get_competitor_details                                 *)
(***************************************************************************)
CompetitorCategory(df, category, competitor_name) ==
    LET cat_data == CatData(df, category)
        IsCompetitor(r) == r.source_normalized = competitor_name
        competitor_data == FilterSeq(cat_data, IsCompetitor)
        amazon_data == AmazonData(cat_data)
        comp_score == competitor_data[1].score_norm
        amazon_score == amazon_data[1].score_norm
    IN  IF competitor_data # <<>> /\ amazon_data # <<>>
        THEN <<[category |-> category,
                rank |-> competitor_data[1].rank,
                score |-> Round4(comp_score),
                amazon_rank |-> amazon_data[1].rank,
                amazon_score |-> Round4(amazon_score),
                gap |-> Round2(comp_score - amazon_score)]>>
        ELSE <<>>

RECURSIVE CompetitorCategories(_, _, _)
CompetitorCategories(df, cats, competitor_name) ==
    IF cats = <<>> THEN <<>>
    ELSE CompetitorCategory(df, Head(cats), competitor_name)
         \o CompetitorCategories(df, Tail(cats), competitor_name)

CompetitorRankLess_Unsorted(a, b) == FALSE

\* categories.sort(key=lambda x: x['rank'])
CompetitorRankLess(a, b) == a.rank < b.rank

\* strength_areas[:10]
StrengthAreaLimit == 10

\* [c['category'] for c in categories if c['gap'] > 10]
StrengthAreas(categories) ==
    LET Strong(c) == c.gap > 10000
        strong == FilterSeq(categories, Strong)
    IN  [i \in 1..Len(strong) |-> strong[i].category]

GetCompetitorDetails(file, competitor_name) ==
    LET loaded == LoadRankingData(file)
        df == loaded.value
        categories == StableSort(CompetitorCategories(df, Categories(df),
                                                      competitor_name),
                                 CompetitorRankLess)
        IsFirst(c) == c.rank = 1
        dominated == FilterSeq(categories, IsFirst)
        gap_sum == SumSeq([i \in 1..Len(categories) |-> categories[i].gap])
        avg_gap == IF categories # <<>>
                   THEN RoundDiv(gap_sum, 10 * Len(categories)) * 10
                   ELSE 0
    IN  IF loaded.status = "error" THEN Err("competitor_detail", loaded.error)
        ELSE IF ~HasColumns(df, {"Product", "source_normalized", "rank", "score_norm"})
             THEN Err("competitor_detail", "KeyError")
        ELSE Ok("competitor_detail",
                [competitor_name |-> competitor_name,
                 total_categories_dominated |-> Len(dominated),
                 average_gap |-> avg_gap,
                 categories |-> categories,
                 strength_areas |-> Take(StrengthAreas(categories), StrengthAreaLimit)])

(***************************************************************************)
(* analytics.get_marketplace_rankings                                      *)
(***************************************************************************)
WithinTopN_Strict(rank, top_n) == rank < top_n

\* df[df['rank'] <= top_n]
WithinTopN(rank, top_n) == rank <= top_n

\* df_top.sort_values(['Product', 'rank'])
ProductRankLess(a, b) ==
    \/ StrLess(CategoryNames, a.Product, b.Product)
    \/ (a.Product = b.Product /\ a.rank < b.rank)

\* The dict built for one product: marketplace_ranks[marketplace] = rank for
\* each row in order, so a later row of the same marketplace overwrites.
MarketplaceRanks(product_data) ==
    [s \in {product_data[i].source_normalized : i \in 1..Len(product_data)} |->
        LET last == CHOOSE i \in 1..Len(product_data) :
                        /\ product_data[i].source_normalized = s
                        /\ \A j \in (i + 1)..Len(product_data) :
                              product_data[j].source_normalized # s
        IN  product_data[last].rank]

GetMarketplaceRankings(file, top_n) ==
    LET loaded == LoadRankingData(file)
        df == loaded.value
        InTop(r) == WithinTopN(r.rank, top_n)
        df_top == StableSort(FilterSeq(df.rows, InTop), ProductRankLess)
        products == {df_top[i].Product : i \in 1..Len(df_top)}
    IN  IF loaded.status = "error" THEN Err("ranking_table", loaded.error)
        ELSE Ok("ranking_table",
                [product \in products |->
                    LET OfProduct(r) == r.Product = product
                    IN  MarketplaceRanks(FilterSeq(df_top, OfProduct))])

(***************************************************************************)
(* insights_service.get_category_battle_details                            *)
(***************************************************************************)
\* .head(5)
BattleTopLimit == 5

\* cat_details[... == 'amazon']['product_name'].nunique()
AmazonProductCount(df_details, category) ==
    Cardinality({df_details.rows[i].product_name :
                    i \in {j \in 1..Len(df_details.rows) :
                              /\ df_details.rows[j].Product = category
                              /\ IsAmazon(df_details.rows[j])}})

\* The record built from the three loaded frames.  A category without rows
\* gives amazon_rank 0, amazon_score 0, no competitors and counts of 0.
CategoryBattle(df_rankings, df_details, df_no_rank, category_name) ==
    LET cat_data == Take(CatData(df_rankings, category_name), BattleTopLimit)
        amazon_data == AmazonData(cat_data)
        amazon_rank == IF amazon_data # <<>> THEN amazon_data[1].rank ELSE 0
        amazon_score == IF amazon_data # <<>> THEN amazon_data[1].score_norm ELSE 0
        Gap(row) == IF amazon_score > 0 THEN row.score_norm - amazon_score ELSE 0
        InCategory(r) == r.category = category_name
    IN  [category |-> category_name,
         amazon_rank |-> amazon_rank,
         amazon_score |-> Round4(amazon_score),
         top_5_competitors |->
             [i \in 1..Len(cat_data) |->
                 [name |-> cat_data[i].source_normalized,
                  rank |-> cat_data[i].rank,
                  score |-> cat_data[i].score_norm,
                  gap |-> Round2(Gap(cat_data[i]))]],
         product_count |-> CategorySize(df_details, category_name, 0),
         amazon_product_count |-> AmazonProductCount(df_details, category_name),
         missing_product_count |-> Len(FilterSeq(df_no_rank.rows, InCategory))]

GetCategoryBattleDetails(file1, file2, file3, category_name) ==
    LET rankings == LoadRankingData(file1)
        details == LoadProductDetailsData(file2)
        no_rank == LoadNoRankData(file3)
    IN  IF rankings.status = "error" THEN Err("category_battle", rankings.error)
        ELSE IF details.status = "error" THEN Err("category_battle", details.error)
        ELSE IF no_rank.status = "error" THEN Err("category_battle", no_rank.error)
        ELSE IF ~HasColumns(rankings.value, {"Product", "source_normalized", "rank",
                                             "score_norm"})
                \/ ~HasColumns(no_rank.value, {"Product Category"})
             THEN Err("category_battle", "KeyError")
        ELSE Ok("category_battle",
                CategoryBattle(rankings.value, details.value, no_rank.value,
                               category_name))

(***************************************************************************)
(* Inputs of the model                                                     *)
(***************************************************************************)
\* Scores (1e-5 units) that realise every gap threshold of the code:
\* differences of 5, 7, 10, 15 and 20 points, one above 20, the quadrant
\* cut-off 0.15 and a value that round(.., 2) changes.
ScoreGrid == {0, 7000, 10000, 14996, 15000, 27000}

Rivals == <<"croma", "flipkart", "myntra", "nykaa", "snapdeal">>

RawRow(c, s, norm, sum) ==
    [Product |-> c, source_normalized |-> s, score_norm |-> norm, score_sum |-> sum]

\* k competitor rows below a top score, weakest first, then the focal row.
CategoryRows(c, focal, fscore, k, top) ==
    [i \in 1..k |-> RawRow(c, Rivals[k + 1 - i], Max2(0, top - (k - i) * 2000), 1)]
    \o (IF focal = "none" THEN <<>> ELSE <<RawRow(c, focal, fscore, 1)>>)

\* The rows of one category: no focal row or one spelled either way, and
\* 0..maxk competitor rows.
CategoryShapes(c, spellings, maxk) ==
    {CategoryRows(c, "none", 0, k, top) : k \in 1..maxk, top \in ScoreGrid}
    \cup {CategoryRows(c, f, fs, 0, 0) : f \in spellings, fs \in ScoreGrid}
    \cup UNION {{CategoryRows(c, f, fs, k, top) : f \in spellings, fs \in ScoreGrid} :
                    k \in 1..maxk, top \in ScoreGrid}
    \cup {<<>>}

\* Unranked tables of up to two categories, the later category first.
RawTables ==
    {toys \o audio :
        toys \in CategoryShapes("Toys", {"amazon"}, 1),
        audio \in CategoryShapes("Audio", {"Amazon", "amazon"}, MaxRivals)}

\* Two categories outside ScoreGrid: in "Toys" the focal source has 0.40
\* against a winner with 0.50, in "Audio" it has 0 against a winner with 1.0.
ScenarioTables ==
    {CategoryRows("Toys", "amazon", 40000, 1, 50000)
     \o CategoryRows("Audio", "amazon", 0, 1, 100000)}

NoResult == Ok("none", <<>>)

\* Concurrent requests of the model: each runs one query function.
MaxCalls == 2

CallIds == 1..MaxCalls

\* A request that has not arrived: nothing read, nothing returned.
NoCall ==
    [pc |-> "idle", query |-> "none", args |-> <<>>,
     df_rankings |-> NoFile, df_details |-> NoFile, df_no_rank |-> NoFile,
     output |-> NoResult]

NoCalls == [id \in CallIds |-> NoCall]

(***************************************************************************)
(* The deployed service: EXCEL_FILE_1 is the output of rank.py             *)
(***************************************************************************)
Init ==
    /\ rawScores \in RawTables \cup ScenarioTables
    /\ excel1 = RankScript(rawScores)
    /\ excel2 = NoFile
    /\ excel3 = NoFile
    /\ result = NoResult
    /\ calls = NoCalls

Overview ==
    /\ result' = CalculateOverviewMetrics(excel1)
    /\ UNCHANGED <<rawScores, excel1, excel2, excel3, calls>>

Priority ==
    /\ result' = CategorizeByPriority(excel1)
    /\ UNCHANGED <<rawScores, excel1, excel2, excel3, calls>>

Next ==
    \/ Overview
    \/ Priority

Spec == Init /\ [][Next]_vars

(***************************************************************************)
(* The ranking pipeline: rank.py writes the file load_ranking_data reads   *)
(***************************************************************************)
SmallSources == <<"Amazon", "ajio", "croma">>

RowOrders(S) ==
    {f \in [1..Cardinality(S) -> S] : \A i, j \in DOMAIN f : i # j => f[i] # f[j]}

SmallScores == 0..MaxSmallScore

SmallCategories == {"Audio", "Toys"}

\* Every unranked table with one row per small source, in any row order,
\* any split over the categories and any scores: ties on score_norm and on
\* score_sum included.
RawSmall ==
    {[i \in 1..Len(SmallSources) |-> RawRow(cat[i], src[i], norm[i], sum[i])] :
        src \in RowOrders(Range(SmallSources)),
        cat \in [1..Len(SmallSources) -> SmallCategories],
        norm \in [1..Len(SmallSources) -> SmallScores],
        sum \in [1..Len(SmallSources) -> SmallScores]}

InitRankScript ==
    /\ rawScores \in RawSmall
    /\ excel1 = NoFile
    /\ excel2 = NoFile
    /\ excel3 = NoFile
    /\ result = NoResult
    /\ calls = NoCalls

RunRankScript ==
    /\ excel1' = RankScript(rawScores)
    /\ result' = Ok("rank.py", <<>>)
    /\ UNCHANGED <<rawScores, excel2, excel3, calls>>

LoadRanking ==
    /\ result' = LoadRankingData(excel1)
    /\ UNCHANGED <<rawScores, excel1, excel2, excel3, calls>>

NextRankScript ==
    \/ RunRankScript
    \/ LoadRanking

SpecRankScript == InitRankScript /\ [][NextRankScript]_vars

(***************************************************************************)
(* Properties                                                              *)
(***************************************************************************)
TableRows == Range(excel1.rows)

TableCategories == {r.Product : r \in TableRows}

FocalRows(c) == {r \in TableRows : r.Product = c /\ Lower(r.source_normalized) = "amazon"}

FirstRows(c) == {r \in TableRows : r.Product = c /\ r.rank = 1}

\* Categories in which the focal source has a row of rank > 1.
Eligible == {c \in TableCategories : \E r \in FocalRows(c) : r.rank > 1}

\* (winner score - focal score) x 100, in 0.001 points
GapOf(c) ==
    (CHOOSE w \in FirstRows(c) : TRUE).score_norm
    - (CHOOSE f \in FocalRows(c) : TRUE).score_norm

BucketCategories(bucket) == {bucket[i].category : i \in 1..Len(bucket)}

\* C1: priority_buckets() puts every category whose focal row has rank > 1
\* in exactly one of critical / medium / low, chosen by the gap (>= 15
\* Critical, 7 <= gap < 15 Medium, < 7 Low); no other category appears and
\* the bucket sizes add up to the number of such categories.
C1_PriorityPartition ==
    result.op = "priority" =>
        /\ result.status = "ok"
        /\ LET critical == result.value.critical
               medium == result.value.medium
               low == result.value.low
           IN  /\ BucketCategories(critical) \cup BucketCategories(medium)
                     \cup BucketCategories(low) = Eligible
               /\ Len(critical) + Len(medium) + Len(low) = Cardinality(Eligible)
               /\ BucketCategories(critical) \cap BucketCategories(medium) = {}
               /\ BucketCategories(critical) \cap BucketCategories(low) = {}
               /\ BucketCategories(medium) \cap BucketCategories(low) = {}
               /\ \A c \in Eligible :
                     /\ c \in BucketCategories(critical) <=> GapOf(c) >= 15000
                     /\ c \in BucketCategories(medium) <=>
                            (GapOf(c) >= 7000 /\ GapOf(c) < 15000)
                     /\ c \in BucketCategories(low) <=> GapOf(c) < 7000

\* Two eligible categories in different buckets, one of them with a gap of
\* exactly 15 points.
C1_Witness ==
    /\ result.op = "priority"
    /\ result.status = "ok"
    /\ Len(result.value.critical) = 1
    /\ Len(result.value.low) = 1
    /\ \E c \in Eligible : GapOf(c) = 15000

\* The order rank.py is meant to produce inside one category.
Precedes(a, b) ==
    \/ a.score_norm > b.score_norm
    \/ /\ a.score_norm = b.score_norm
       /\ \/ a.score_sum > b.score_sum
          \/ /\ a.score_sum = b.score_sum
             /\ StrOrd(SourceNames, a.source_normalized)
                    < StrOrd(SourceNames, b.source_normalized)

LoadedRows == Range(result.value.rows)

\* C2: in a loaded Ranking Table the ranks of the k rows of a category are
\* exactly 1..k without duplicates, and a has a smaller rank than b exactly
\* when a comes before b by (score_norm desc, score_sum desc, source asc).
C2_DenseOrderedRanks ==
    (result.op = "load_ranking_data" /\ result.status = "ok") =>
        \A c \in {r.Product : r \in LoadedRows} :
            LET rows == {r \in LoadedRows : r.Product = c}
            IN  /\ {r.rank : r \in rows} = 1..Cardinality(rows)
                /\ \A a, b \in rows : a.rank < b.rank <=> Precedes(a, b)

\* A loaded category of three rows that tie on score_norm, two of them also
\* on score_sum.
C2_Witness ==
    /\ result.op = "load_ranking_data"
    /\ result.status = "ok"
    /\ \E a, b, c \in LoadedRows :
          /\ a.Product = b.Product /\ b.Product = c.Product
          /\ a.score_norm = b.score_norm /\ b.score_norm = c.score_norm
          /\ a.score_sum > b.score_sum /\ b.score_sum = c.score_sum
          /\ a.rank = 1 /\ b.rank = 2 /\ c.rank = 3

\* C3: on a non-empty Ranking Table overview_metrics() returns
\* visibility_score and leadership_score within [0,100] and non-negative
\* counts with categories_rank_1 + categories_not_rank_1 = total_categories.
C3_OverviewRanges ==
    (result.op = "overview" /\ excel1.rows # <<>>) =>
        /\ result.status = "ok"
        /\ LET m == result.value
           IN  /\ m.visibility_score >= 0 /\ m.visibility_score <= 10000
               /\ m.market_leadership_score >= 0 /\ m.market_leadership_score <= 10000
               /\ m.categories_rank_1 >= 0
               /\ m.categories_not_rank_1 >= 0
               /\ m.categories_rank_1 + m.categories_not_rank_1 = m.total_categories
               /\ m.total_categories = Cardinality(TableCategories)

\* Two categories, the focal source first in one and absent from the other.
C3_Witness ==
    /\ result.op = "overview"
    /\ result.status = "ok"
    /\ result.value.total_categories = 2
    /\ result.value.categories_rank_1 = 1
    /\ result.value.visibility_score = 5000

(***************************************************************************)
(* The loaders against arbitrary files                                     *)
(***************************************************************************)
DetailColumns == {"Product", "product_name", "source_normalized", "rank", "extra"}

CitationColumns == {"Product Category", "Product Name", "Citations"}

OneRankedRow ==
    <<[Product |-> "Audio", source_normalized |-> "amazon", score_norm |-> 15000,
       score_sum |-> 1, rank |-> 1]>>

OneDetailRow ==
    <<[Product |-> "Audio", product_name |-> "p1", source_normalized |-> "amazon",
       rank |-> 1, extra |-> <<"genuine">>]>>

CitationRow(c, citations) ==
    [category |-> c, product_name |-> "p1", citations |-> citations]

OneCitationRow == <<CitationRow("Audio", [isna |-> TRUE, text |-> <<>>])>>

\* A file that is missing, or present with any subset of its columns.
FilesWith(columns, rows) == {NoFile} \cup {File(cols, rows) : cols \in SUBSET columns}

InitLoad ==
    /\ rawScores = <<>>
    /\ excel1 \in FilesWith(RankedColumns, OneRankedRow)
    /\ excel2 \in FilesWith(DetailColumns, OneDetailRow)
    /\ excel3 \in FilesWith(CitationColumns, OneCitationRow)
    /\ result = NoResult
    /\ calls = NoCalls

LoadDetails ==
    /\ result' = LoadProductDetailsData(excel2)
    /\ UNCHANGED <<rawScores, excel1, excel2, excel3, calls>>

LoadNoRank ==
    /\ result' = LoadNoRankData(excel3)
    /\ UNCHANGED <<rawScores, excel1, excel2, excel3, calls>>

NextLoad ==
    \/ LoadRanking
    \/ LoadDetails
    \/ LoadNoRank

SpecLoad == InitLoad /\ [][NextLoad]_vars

\* What a loader owes for a file and the columns the table requires.
LoaderContract(file, required) ==
    \/ /\ result.status = "ok"
       /\ file.exists
       /\ required \subseteq result.value.columns
    \/ /\ result.status = "error"
       /\ ~file.exists
       /\ result.error = "FileNotFoundError"
    \/ /\ result.status = "error"
       /\ file.exists
       /\ required \ file.columns # {}
       /\ result.error = "ValueError"

\* C4: each loader returns a table with every required column (Ranking:
\* Product, source_normalized, rank, score_norm, score_sum; Product-Detail:
\* Product, product_name, source_normalized, rank; Citation: category,
\* product name, citations), or fails with the missing-file error when the
\* file is missing and with the missing-column error when a column is absent.
C4_LoaderContract ==
    /\ result.op = "load_ranking_data" => LoaderContract(excel1, RankedColumns)
    /\ result.op = "load_product_details_data" => LoaderContract(excel2, DetailsRequired)
    /\ result.op = "load_no_rank_data" => LoaderContract(excel3, CitationColumns)

(***************************************************************************)
(* Rank prediction requests                                                *)
(***************************************************************************)
\* Query(5, ge=0, le=50) and Query(10, ge=0, le=100) of get_rank_prediction
MaxProductsToAdd == 50

MaxCitationsNeeded == 100

ProductsToAdd == (0..MaxInvest) \cup {MaxProductsToAdd}

CitationsNeeded == (0..MaxInvest) \cup {MaxCitationsNeeded}

\* One category of any shape next to a second one that is absent or holds
\* a single strong competitor row.
PredictTables ==
    {toys \o audio :
        toys \in {<<>>, CategoryRows("Toys", "none", 0, 1, 27000)},
        audio \in CategoryShapes("Audio", {"Amazon", "amazon"}, MaxRivals)}

\* Categories asked for: "Toys" is missing from half of PredictTables.
RequestedCategories == {"Audio", "Toys"}

InitPredict ==
    /\ rawScores \in PredictTables
    /\ excel1 = RankScript(rawScores)
    /\ excel2 = NoFile
    /\ excel3 = NoFile
    /\ result = NoResult
    /\ calls = NoCalls

Predict ==
    \E category \in RequestedCategories, p \in ProductsToAdd, c \in CitationsNeeded :
        /\ result' = [PredictRankMovement(excel1, category, p, c)
                          EXCEPT !.args = <<category, p, c>>]
        /\ UNCHANGED <<rawScores, excel1, excel2, excel3, calls>>

NextPredict == Predict

SpecPredict == InitPredict /\ [][NextPredict]_vars

RowsOf(c) == {r \in TableRows : r.Product = c}

\* C5: for a category without a focal row predict reports current_rank =
\* rows + 1, predicted_score = min(1.0, 0.03 p + 0.02 c) and predicted_rank =
\* rows - (rows with score < predicted_score) + 1 clamped into [1, rows].
C5_NewEntryPrediction ==
    (result.op = "predict" /\ result.status = "ok"
        /\ FocalRows(result.value.category) = {}) =>
        LET v == result.value
            total == Cardinality(RowsOf(v.category))
            boosted == 3000 * v.products_to_add + 2000 * v.citations_needed
            score == IF boosted > 100000 THEN 100000 ELSE boosted
            weaker == Cardinality({r \in RowsOf(v.category) : r.score_norm < score})
            unclamped == total - weaker + 1
        IN  /\ v.current_rank = total + 1
            /\ v.predicted_score = score
            /\ v.predicted_rank =
                  (IF unclamped < 1 THEN 1
                   ELSE IF unclamped > total THEN total ELSE unclamped)
            /\ v.predicted_rank >= 1 /\ v.predicted_rank <= total

\* A new-entry forecast capped at score 1.0 that overtakes every row, and
\* so lands on rank 1 of a category with at least two rows.
C5_Witness ==
    /\ result.op = "predict" /\ result.status = "ok"
    /\ result.value.branch = "new_entry"
    /\ FocalRows(result.value.category) = {}
    /\ result.value.products_to_add = MaxProductsToAdd
    /\ result.value.predicted_score = 100000
    /\ result.value.current_rank >= 3
    /\ result.value.predicted_rank = 1

\* C6: for a category with a focal row predict reports predicted_score =
\* min(1.0, current + 0.02 p + 0.01 c) and predicted_rank = max(1,
\* current_rank - floor((predicted_score - current_score) / 0.05)), so
\* 1 <= predicted_rank <= current_rank.
C6_ExistingPrediction ==
    (result.op = "predict" /\ result.status = "ok"
        /\ FocalRows(result.value.category) # {}) =>
        LET v == result.value
            focal == CHOOSE f \in FocalRows(v.category) : TRUE
            boosted == focal.score_norm + 2000 * v.products_to_add
                          + 1000 * v.citations_needed
            score == IF boosted > 100000 THEN 100000 ELSE boosted
            moved == focal.rank - ((score - focal.score_norm) \div 5000)
        IN  /\ v.current_rank = focal.rank
            /\ v.predicted_score = score
            /\ v.predicted_rank = (IF moved < 1 THEN 1 ELSE moved)
            /\ 1 <= v.predicted_rank /\ v.predicted_rank <= v.current_rank

\* A focal row of rank 3 whose boost of 0.05 <= d < 0.10 moves it up by
\* exactly one rank.
C6_Witness ==
    /\ result.op = "predict" /\ result.status = "ok"
    /\ result.value.branch = "existing"
    /\ result.value.current_rank = 3
    /\ result.value.predicted_rank = 2
    /\ result.value.products_to_add = 3
    /\ result.value.citations_needed = 1

(***************************************************************************)
(* Citation analysis                                                       *)
(***************************************************************************)
TextTokens == {"http:", "/", " ", "]", "www.", "x.com"}

\* Every text of up to MaxTextLen tokens.
ShortTexts == UNION {[1..n -> TextTokens] : n \in 0..MaxTextLen}

\* "[1]: https://www.example.com/x [2]: http://example.com/y"
ScenarioText ==
    <<"[", "1", "]", ":", " ", "https:", "/", "/", "www.", "example.com", "/", "x",
      " ", "[", "2", "]", ":", " ", "http:", "/", "/", "example.com", "/", "y">>

\* "[1]: https://shop.www.example.com/x": "www." inside the host
InnerWwwText ==
    <<"[", "1", "]", ":", " ", "https:", "/", "/", "shop.", "www.", "example.com",
      "/", "x">>

\* "[1]: https://www.amazon.in/x [2]: https://x.com [3]: http://Amazon.com"
AmazonText ==
    <<"[", "1", "]", ":", " ", "https:", "/", "/", "www.", "amazon.in", "/", "x",
      " ", "[", "2", "]", ":", " ", "https:", "/", "/", "x.com",
      " ", "[", "3", "]", ":", " ", "http:", "/", "/", "Amazon.com">>

\* "http:///x": a URL without a host
NoHostText == <<"http:", "/", "/", "/", "x">>

\* "https://x.com?q": a query right after the host
QueryText == <<"https:", "/", "/", "x.com", "?", "q">>

\* "http://[x.com/y": a host that urlparse rejects
BracketText == <<"http:", "/", "/", "[", "x.com", "/", "y">>

CitationTables ==
    {<<CitationRow("Audio", Cell(t))>> : t \in ShortTexts \cup {NoHostText, QueryText, BracketText}}
    \cup {<<CitationRow("Audio", NaN)>>}
    \cup {<<CitationRow("Audio", Cell(a)), CitationRow("Toys", NaN),
            CitationRow("Toys", Cell(b))>> :
            a, b \in {ScenarioText, InnerWwwText, AmazonText}}

\* The request layer accepts top_n in 1..100: Query(50, ge=1, le=100)
MaxTopN == 100

TopNRequests == {1, 2, ServiceTopSources, ServiceTopSources + 1, MaxTopN}

InitCitations ==
    /\ rawScores = <<>>
    /\ excel1 = NoFile
    /\ excel2 = NoFile
    /\ excel3 \in {File(CitationColumns, rows) : rows \in CitationTables}
    /\ result = NoResult
    /\ calls = NoCalls

\* extract_domains_from_citations(df_no_rank['Citations'])
ExtractDomains ==
    /\ result' = Ok("extract_domains",
                    ExtractDomainsFromCitations(
                        [i \in 1..Len(excel3.rows) |-> excel3.rows[i].citations]))
    /\ UNCHANGED <<rawScores, excel1, excel2, excel3, calls>>

CitationSources ==
    \E top_n \in TopNRequests :
        /\ result' = [GetCitationSources(excel3, top_n) EXCEPT !.args = <<top_n>>]
        /\ UNCHANGED <<rawScores, excel1, excel2, excel3, calls>>

GetCitationVisibility ==
    /\ result' = CalculateCitationVisibility(excel3)
    /\ UNCHANGED <<rawScores, excel1, excel2, excel3, calls>>

NextCitations ==
    \/ ExtractDomains
    \/ CitationSources
    \/ GetCitationVisibility

SpecCitations == InitCitations /\ [][NextCitations]_vars

\* The host of every URL occurrence of the table, in order of occurrence.
RECURSIVE HostsOf(_)
HostsOf(rows) ==
    IF rows = <<>> THEN <<>>
    ELSE (IF Head(rows).citations.isna THEN <<>>
          ELSE FindHosts(Head(rows).citations.text, 1))
         \o HostsOf(Tail(rows))

\* C7: extract_domains returns one hostname per URL occurrence, in order
\* and with duplicates, each the URL's host with only a leading "www."
\* removed ("www." elsewhere in the host stays); no URL gives <<>>.
C7_LeadingWwwOnly ==
    result.op = "extract_domains" =>
        LET hosts == HostsOf(excel3.rows)
        IN  /\ Len(result.value) = Len(hosts)
            /\ \A k \in 1..Len(hosts) :
                  result.value[k] =
                      (IF hosts[k][1] = "www." THEN Tail(hosts[k]) ELSE hosts[k])

\* The domains a Citation Table mentions, with frequency and category count.
MentionedDomains == {m.domain : m \in Range(DomainMentions(excel3.rows))}

ImpactOf(d) ==
    LET ms == {k \in 1..Len(DomainMentions(excel3.rows)) :
                  DomainMentions(excel3.rows)[k].domain = d}
    IN  7 * Cardinality(ms)
        + 3 * Cardinality({DomainMentions(excel3.rows)[k].category : k \in ms})

\* C8: citation_sources() with a cut-off n in 1..100 returns the n domains
\* of highest impact_score = 0.7 frequency + 0.3 categories (all of them
\* when fewer than n exist), sorted descending by impact_score.
C8_TopNSources ==
    result.op = "citation_sources" =>
        /\ result.status = "ok"
        /\ LET n == result.args[1]
               out == result.value
               listed == {out[k].domain : k \in 1..Len(out)}
           IN  /\ Len(out) = Min2(n, Cardinality(MentionedDomains))
               /\ Cardinality(listed) = Len(out)
               /\ listed \subseteq MentionedDomains
               /\ \A k \in 1..Len(out) : out[k].impact_score = ImpactOf(out[k].domain)
               /\ \A k \in 1..(Len(out) - 1) : out[k].impact_score >= out[k + 1].impact_score
               /\ \A d \in MentionedDomains \ listed :
                     \A k \in 1..Len(out) : out[k].impact_score >= ImpactOf(d)

(***************************************************************************)
(* Trust signals over Product-Detail Tables                                *)
(***************************************************************************)
Marketplaces ==
    <<"amazon", "flipkart", "croma", "myntra", "nykaa", "snapdeal", "ajio", "meesho",
      "tatacliq", "jiomart", "bigbasket", "blinkit", "zepto", "pepperfry", "lenskart",
      "firstcry", "purplle", "decathlon", "ikea", "boat">>

TrustTexts ==
    {<<>>, <<"nan">>, <<"genuine">>, <<"Genuine", "and", "genuine">>, <<"fake">>,
     <<"poor", "quality">>, <<"quality", "fake", "fake">>, <<"very", "poor">>,
     <<"fast", "delivery", "scam", "fraud", "delayed">>}

DetailRow(c, name, s, extra) ==
    [Product |-> c, product_name |-> name, source_normalized |-> s, rank |-> 1,
     extra |-> extra]

\* n marketplaces with one row each: marketplace j says a, the others say b;
\* marketplace j may have a second row at the end of the table.
TrustTable(n, j, a, b, more) ==
    [i \in 1..n |-> DetailRow("Audio", "p1", Marketplaces[i], IF i = j THEN a ELSE b)]
    \o (IF more THEN <<DetailRow("Toys", "p2", Marketplaces[j], <<"quality">>)>>
        ELSE <<>>)

TrustTables ==
    {<<>>} \cup
    UNION {{TrustTable(n, j, a, b, more) :
                j \in 1..n, a \in TrustTexts, b \in {<<>>, <<"genuine">>, <<"fake">>},
                more \in BOOLEAN} :
              n \in 1..Min2(MaxSources, Len(Marketplaces))}

InitTrust ==
    /\ rawScores = <<>>
    /\ excel1 = NoFile
    /\ excel2 \in {File(DetailColumns, rows) : rows \in TrustTables}
    /\ excel3 = NoFile
    /\ result = NoResult
    /\ calls = NoCalls

TrustSignals ==
    /\ result' = CalculateTrustSignals(excel2)
    /\ UNCHANGED <<rawScores, excel1, excel2, excel3, calls>>

NextTrust == TrustSignals

SpecTrust == InitTrust /\ [][NextTrust]_vars

DetailSources == {r.source_normalized : r \in Range(excel2.rows)}

\* The lower-cased words of a marketplace, row after row.
WordsOf(m) ==
    LET Mine(r) == r.source_normalized = m
        mine == FilterSeq(excel2.rows, Mine)
        RECURSIVE Cat(_)
        Cat(rs) == IF rs = <<>> THEN <<>>
                   ELSE [k \in 1..Len(Head(rs).extra) |-> Lower(Head(rs).extra[k])]
                        \o Cat(Tail(rs))
    IN  Cat(mine)

Occurrences(words, keyword) ==
    Cardinality({i \in 1..(Len(words) - Len(keyword) + 1) :
                    \A k \in 1..Len(keyword) : words[i + k - 1] = keyword[k]})

PositiveTotal(m) ==
    SumSeq([k \in 1..Len(positive_keywords) |-> Occurrences(WordsOf(m), positive_keywords[k])])

NegativeTotal(m) ==
    SumSeq([k \in 1..Len(negative_keywords) |-> Occurrences(WordsOf(m), negative_keywords[k])])

\* What a trust_signals() entry must say about its marketplace; the score
\* is in 0.1 units, rounded to one decimal.
TrustEntryRight(e) ==
    LET pos == PositiveTotal(e.marketplace)
        total == pos + NegativeTotal(e.marketplace)
    IN  /\ e.total_mentions = total
        /\ total = 0 => e.trust_score = 500
        /\ total > 0 => /\ 2 * (e.trust_score * total - 1000 * pos) <= total
                        /\ 2 * (1000 * pos - e.trust_score * total) <= total

TrustEntriesRight ==
    /\ result.status = "ok"
    /\ \A k \in 1..Len(result.value) : TrustEntryRight(result.value[k])
    /\ \A k \in 1..(Len(result.value) - 1) :
          result.value[k].trust_score >= result.value[k + 1].trust_score
    /\ Cardinality({result.value[k].marketplace : k \in 1..Len(result.value)})
          = Len(result.value)

FirstSources ==
    LET all == UniqueSeq([i \in 1..Len(excel2.rows) |-> excel2.rows[i].source_normalized])
    IN  {all[k] : k \in 1..(IF Len(all) < 15 THEN Len(all) ELSE 15)}

Products == <<"p1", "p2", "p3", "p4", "p5", "p6", "p7">>

\* size distinct products of a category, the first one listed by two sources
DetailRowsOf(c, size) ==
    [i \in 1..size |-> DetailRow(c, Products[i], "flipkart", <<>>)]
    \o (IF size > 0 THEN <<DetailRow(c, Products[1], "amazon", <<>>)>> ELSE <<>>)

CatSizes == 0..Min2(MaxCatSize, Len(Products))

QuadrantRaw ==
    {toys \o audio :
        toys \in CategoryShapes("Toys", {"amazon"}, 0),
        audio \in CategoryShapes("Audio", {"Amazon", "amazon"}, 1)}

InitQuadrants ==
    /\ rawScores \in QuadrantRaw
    /\ excel1 = RankScript(rawScores)
    /\ \E a, t \in CatSizes :
          excel2 = File(DetailColumns, DetailRowsOf("Audio", a) \o DetailRowsOf("Toys", t))
    /\ excel3 = NoFile
    /\ result = NoResult
    /\ calls = NoCalls

Quadrants ==
    /\ result' = GeneratePerformanceQuadrants(excel1, excel2)
    /\ UNCHANGED <<rawScores, excel1, excel2, excel3, calls>>

NextQuadrants == Quadrants

SpecQuadrants == InitQuadrants /\ [][NextQuadrants]_vars

\* Distinct product names of a category in the Product-Detail Table, 1 when
\* the category is not there.
SizeOf(c) ==
    LET names == {r.product_name : r \in {d \in Range(excel2.rows) : d.Product = c}}
    IN  IF names = {} THEN 1 ELSE Cardinality(names)

FocalCategories == {c \in TableCategories : FocalRows(c) # {}}

\* C10: performance_quadrants() has exactly one row per category with a
\* focal row and none for another category; the quadrant is Stars for score
\* >= 0.15 and size >= 3, Question Marks for score < 0.15 and size >= 3,
\* Cash Cows for score >= 0.15 and size < 3, Dogs otherwise.
C10_Quadrants ==
    result.op = "quadrants" =>
        /\ result.status = "ok"
        /\ Len(result.value) = Cardinality(FocalCategories)
        /\ {result.value[k].category : k \in 1..Len(result.value)} = FocalCategories
        /\ \A k \in 1..Len(result.value) :
              LET e == result.value[k]
                  score == (CHOOSE f \in FocalRows(e.category) : TRUE).score_norm
                  size == SizeOf(e.category)
              IN  /\ e.category_size = size
                  /\ e.quadrant =
                        (IF score >= 15000 /\ size >= 3 THEN "Stars"
                         ELSE IF score < 15000 /\ size >= 3 THEN "Question Marks"
                         ELSE IF score >= 15000 /\ size < 3 THEN "Cash Cows"
                         ELSE "Dogs")

\* A Star with score exactly 0.15 and three products next to a Dog whose
\* category is missing from the Product-Detail Table.
C10_Witness ==
    /\ result.op = "quadrants" /\ result.status = "ok"
    /\ \E k \in 1..Len(result.value) :
          /\ result.value[k].quadrant = "Stars"
          /\ result.value[k].amazon_score = 15000
          /\ result.value[k].category_size = 3
    /\ \E k \in 1..Len(result.value) :
          /\ result.value[k].quadrant = "Dogs"
          /\ result.value[k].amazon_score = 14996
          /\ \A d \in Range(excel2.rows) : d.Product # result.value[k].category

(***************************************************************************)
(* Heatmap and quick wins: a category of up to six ranked rows             *)
(***************************************************************************)
\* As RawTables, with every competitor of Rivals allowed in "Audio", so
\* that the focal row takes every rank from 1 to Len(Rivals) + 1.
HeatmapTables ==
    {toys \o audio :
        toys \in CategoryShapes("Toys", {"amazon"}, 1),
        audio \in CategoryShapes("Audio", {"Amazon", "amazon"}, Len(Rivals))}

InitHeatmap ==
    /\ rawScores \in HeatmapTables
    /\ excel1 = RankScript(rawScores)
    /\ excel2 = NoFile
    /\ excel3 = NoFile
    /\ result = NoResult
    /\ calls = NoCalls

Heatmap ==
    /\ result' = GenerateCategoryHeatmap(excel1)
    /\ UNCHANGED <<rawScores, excel1, excel2, excel3, calls>>

QuickWins ==
    /\ result' = IdentifyQuickWins(excel1)
    /\ UNCHANGED <<rawScores, excel1, excel2, excel3, calls>>

NextHeatmap ==
    \/ Heatmap
    \/ QuickWins

SpecHeatmap == InitHeatmap /\ [][NextHeatmap]_vars

FocalRow(c) == CHOOSE f \in FocalRows(c) : TRUE

\* The row of category c with the lowest rank number.
LowestRankRow(c) ==
    CHOOSE w \in RowsOf(c) : \A r \in RowsOf(c) : w.rank <= r.rank

\* reported is exact rounded to a multiple of step.
ReportedAs(exact, reported, step) ==
    /\ reported % step = 0
    /\ 2 * (reported - exact) <= step
    /\ 2 * (exact - reported) <= step

\* C11: in every heatmap row gap_to_first is never negative: it is 0 when the
\* focal rank is 1 and, when the focal rank is greater than 1, the score of
\* the lowest-rank-number row of the category minus the focal score, which
\* is >= 0 (reported to the four decimals of the output).
C11_GapToFirstNotNegative ==
    result.op = "heatmap" =>
        /\ result.status = "ok"
        /\ \A i \in 1..Len(result.value) :
              LET e == result.value[i]
                  c == e.category
                  exact == LowestRankRow(c).score_norm - FocalRow(c).score_norm
              IN  /\ FocalRows(c) # {}
                  /\ e.amazon_rank = FocalRow(c).rank
                  /\ e.gap_to_first >= 0
                  /\ e.amazon_rank = 1 => e.gap_to_first = 0
                  /\ e.amazon_rank > 1 =>
                        /\ exact >= 0
                        /\ ReportedAs(exact, e.gap_to_first, 10)

\* A heatmap with a row of rank 1 and a row of a lower place whose gap is
\* positive and is changed by the rounding.
C11_Witness ==
    /\ result.op = "heatmap"
    /\ result.status = "ok"
    /\ Len(result.value) = 2
    /\ result.value[2].amazon_rank = 1
    /\ result.value[1].amazon_rank > 1
    /\ result.value[1].gap_to_first = 12000
    /\ LowestRankRow("Audio").score_norm - FocalRow("Audio").score_norm = 12004

\* C12: status_color of a heatmap row is decided by the focal rank alone:
\* rank 1 green, 2-3 yellow, 4-5 orange, larger red; two rows with equal
\* rank get the same colour.
C12_StatusColorByRank ==
    result.op = "heatmap" =>
        /\ result.status = "ok"
        /\ \A i \in 1..Len(result.value) :
              LET e == result.value[i]
                  rank == FocalRow(e.category).rank
              IN  /\ rank = 1 => e.status_color = "green"
                  /\ rank \in {2, 3} => e.status_color = "yellow"
                  /\ rank \in {4, 5} => e.status_color = "orange"
                  /\ rank > 5 => e.status_color = "red"
        /\ \A i, j \in 1..Len(result.value) :
              FocalRow(result.value[i].category).rank
                  = FocalRow(result.value[j].category).rank
              => result.value[i].status_color = result.value[j].status_color

\* A heatmap with a red row of rank 6 next to a yellow row.
C12_Witness ==
    /\ result.op = "heatmap"
    /\ result.status = "ok"
    /\ Len(result.value) = 2
    /\ FocalRow("Audio").rank = 6
    /\ result.value[1].status_color = "red"
    /\ result.value[2].status_color = "yellow"

\* Categories whose focal row has rank 2 or 3 and a gap below 15 points.
QuickWinCategories ==
    {c \in TableCategories :
        /\ FocalRows(c) # {}
        /\ FocalRow(c).rank \in {2, 3}
        /\ GapOf(c) < 15000}

\* C13: quick_wins() contains a category exactly when its focal rank is 2 or
\* 3 and its gap is below 15; the effort and the action list follow the gap
\* band (< 5: Low and the 2-item list, 5 <= gap < 10: Medium and a 3-item
\* list, >= 10: Medium and the other 3-item list); the result is sorted
\* ascending by gap_percentage.
C13_QuickWins ==
    result.op = "quick_wins" =>
        /\ result.status = "ok"
        /\ {result.value[i].category : i \in 1..Len(result.value)} = QuickWinCategories
        /\ Len(result.value) = Cardinality(QuickWinCategories)
        /\ \A i \in 1..Len(result.value) :
              LET e == result.value[i]
                  gap == GapOf(e.category)
              IN  /\ gap < 5000 =>
                        /\ e.estimated_effort = "Low"
                        /\ e.action_items = <<"Increase product variety",
                                              "Optimize pricing">>
                  /\ (5000 <= gap /\ gap < 10000) =>
                        /\ e.estimated_effort = "Medium"
                        /\ e.action_items = <<"Expand product catalog",
                                              "Improve delivery speed",
                                              "Enhance reviews">>
                  /\ gap >= 10000 =>
                        /\ e.estimated_effort = "Medium"
                        /\ e.action_items = <<"Strategic pricing review",
                                              "Marketing push",
                                              "Partnership opportunities">>
        /\ \A i \in 1..(Len(result.value) - 1) :
              result.value[i].gap_percentage <= result.value[i + 1].gap_percentage

\* Two quick wins of different bands that the sort has put in the opposite
\* of their table order.
C13_Witness ==
    /\ result.op = "quick_wins"
    /\ result.status = "ok"
    /\ Len(result.value) = 2
    /\ result.value[1].category = "Toys"
    /\ result.value[1].estimated_effort = "Low"
    /\ result.value[2].category = "Audio"
    /\ GapOf("Audio") >= 10000

(***************************************************************************)
(* Battlegrounds: the ranking table with the Product-Detail Table          *)
(***************************************************************************)
\* "Toys" is empty or a focal row below or level with one competitor;
\* "Audio" is any shape with at most one competitor.
BattlegroundRaw ==
    {toys \o audio :
        toys \in {CategoryRows("Toys", "amazon", fs, 1, top) :
                     fs \in {0, 7000}, top \in ScoreGrid} \cup {<<>>},
        audio \in CategoryShapes("Audio", {"Amazon", "amazon"}, 1)}

InitBattlegrounds ==
    /\ rawScores \in BattlegroundRaw
    /\ excel1 = RankScript(rawScores)
    /\ \E a, t \in CatSizes :
          excel2 = File(DetailColumns, DetailRowsOf("Audio", a) \o DetailRowsOf("Toys", t))
    /\ excel3 = NoFile
    /\ result = NoResult
    /\ calls = NoCalls

Battlegrounds ==
    /\ result' = IdentifyBattlegrounds(excel1, excel2)
    /\ UNCHANGED <<rawScores, excel1, excel2, excel3, calls>>

NextBattlegrounds == Battlegrounds

SpecBattlegrounds == InitBattlegrounds /\ [][NextBattlegrounds]_vars

\* Distinct product names of category c in the Product-Detail Table.
ProductCount(c) ==
    Cardinality({d.product_name : d \in {x \in Range(excel2.rows) : x.Product = c}})

\* Categories whose focal row is below rank 1 with a gap from 7 to 20 points.
BattlegroundCategories ==
    {c \in TableCategories :
        /\ FocalRows(c) # {}
        /\ FocalRow(c).rank > 1
        /\ 7000 <= GapOf(c)
        /\ GapOf(c) <= 20000}

PriorityOrdinal(level) == IF level = "High" THEN 3 ELSE IF level = "Medium" THEN 2 ELSE 1

\* C14: battlegrounds() contains a category exactly when its focal rank is
\* above 1 and 7 <= gap <= 20; product_volume and investment_priority are
\* both High for a category size >= 5, Medium for 3..4 and Low below 3; of
\* two consecutive rows the earlier has the higher priority ordinal, or the
\* same ordinal and a gap that is not smaller.
C14_Battlegrounds ==
    result.op = "battlegrounds" =>
        /\ result.status = "ok"
        /\ {result.value[i].category : i \in 1..Len(result.value)}
              = BattlegroundCategories
        /\ Len(result.value) = Cardinality(BattlegroundCategories)
        /\ \A i \in 1..Len(result.value) :
              LET e == result.value[i]
                  size == ProductCount(e.category)
                  level == IF size >= 5 THEN "High"
                           ELSE IF size \in {3, 4} THEN "Medium"
                           ELSE "Low"
              IN  /\ e.product_volume = level
                  /\ e.investment_priority = level
        /\ \A i \in 1..(Len(result.value) - 1) :
              LET a == result.value[i]
                  b == result.value[i + 1]
              IN  \/ PriorityOrdinal(a.investment_priority)
                        > PriorityOrdinal(b.investment_priority)
                  \/ /\ PriorityOrdinal(a.investment_priority)
                           = PriorityOrdinal(b.investment_priority)
                     /\ a.gap_percentage >= b.gap_percentage

\* Two battlegrounds at the ends of the gap range and at the size
\* thresholds, listed by the sort in the opposite of their table order.
C14_Witness ==
    /\ result.op = "battlegrounds"
    /\ result.status = "ok"
    /\ Len(result.value) = 2
    /\ result.value[1].category = "Toys"
    /\ result.value[1].investment_priority = "High"
    /\ result.value[2].investment_priority = "Medium"
    /\ ProductCount("Toys") = 5
    /\ ProductCount("Audio") = 3
    /\ GapOf("Toys") = 7000
    /\ GapOf("Audio") = 20000

(***************************************************************************)
(* Competitor threats: three categories with one competitor each           *)
(***************************************************************************)
\* rows with the first competitor of Rivals replaced by winner
Rename(rows, winner) ==
    [i \in DOMAIN rows |->
        IF rows[i].source_normalized = Rivals[1]
        THEN [rows[i] EXCEPT !.source_normalized = winner]
        ELSE rows[i]]

\* One category: empty, the competitor alone, the focal row alone, or the
\* focal row against one of two competitors, whose score is below, level
\* with or above the focal score.
ThreatShapes(c, spellings, scores) ==
    {<<>>, CategoryRows(c, "none", 0, 1, 27000)}
    \cup {CategoryRows(c, f, 0, 0, 0) : f \in spellings}
    \cup {Rename(CategoryRows(c, f, fs, 1, top), w) :
             f \in spellings, fs \in scores, top \in ScoreGrid,
             w \in {"croma", "flipkart"}}

ThreatTables ==
    {games \o toys \o audio :
        games \in ThreatShapes("Games", {"amazon"}, {0}),
        toys \in ThreatShapes("Toys", {"amazon"}, {0, 10000}),
        audio \in ThreatShapes("Audio", {"Amazon", "amazon"}, {0, 10000})}

InitThreats ==
    /\ rawScores \in ThreatTables
    /\ excel1 = RankScript(rawScores)
    /\ excel2 = NoFile
    /\ excel3 = NoFile
    /\ result = NoResult
    /\ calls = NoCalls

Threats ==
    /\ result' = AnalyzeCompetitorThreats(excel1)
    /\ UNCHANGED <<rawScores, excel1, excel2, excel3, calls>>

NextThreats ==
    \/ Threats
    \/ Priority

SpecThreats == InitThreats /\ [][NextThreats]_vars

\* The recorded categories of a competitor: the focal source has a row in
\* them and their rank-1 row is the competitor's, who is not the focal source.
RecordedWins(competitor) ==
    {c \in TableCategories :
        /\ FocalRows(c) # {}
        /\ LowestRankRow(c).source_normalized = competitor
        /\ LowestRankRow(c) \notin FocalRows(c)}

RECURSIVE SumOver(_, _)
\* The sum of f[x] over the finite set S.
SumOver(f, S) ==
    IF S = {} THEN 0
    ELSE LET x == CHOOSE y \in S : TRUE IN f[x] + SumOver(f, S \ {x})

GapSum(competitor) ==
    SumOver([c \in RecordedWins(competitor) |-> GapOf(c)], RecordedWins(competitor))

DetailTables ==
    {Rename(toys, w) \o audio :
        w \in {"croma", "flipkart"},
        toys \in CategoryShapes("Toys", {"amazon"}, 1),
        audio \in CategoryShapes("Audio", {"Amazon", "amazon"}, MaxRivals)}

\* Names asked for: two competitors, the focal source, and a name that is
\* in no table.
CompetitorRequests == {"croma", "flipkart", "amazon", "ajio"}

InitCompetitorDetail ==
    /\ rawScores \in DetailTables
    /\ excel1 = RankScript(rawScores)
    /\ excel2 = NoFile
    /\ excel3 = NoFile
    /\ result = NoResult
    /\ calls = NoCalls

CompetitorDetailRequest ==
    \E competitor_name \in CompetitorRequests :
        /\ result' = [GetCompetitorDetails(excel1, competitor_name)
                          EXCEPT !.args = <<competitor_name>>]
        /\ UNCHANGED <<rawScores, excel1, excel2, excel3, calls>>

NextCompetitorDetail == CompetitorDetailRequest

SpecCompetitorDetail == InitCompetitorDetail /\ [][NextCompetitorDetail]_vars

\* The rows of competitor name in category c (case-sensitive match).
CompetitorRows(c, name) ==
    {r \in TableRows : r.Product = c /\ r.source_normalized = name}

CompetitorGap(c, name) ==
    (CHOOSE r \in CompetitorRows(c, name) : TRUE).score_norm - FocalRow(c).score_norm

\* Categories in which both the competitor and the focal source have a row.
SharedCategories(name) ==
    {c \in TableCategories : CompetitorRows(c, name) # {} /\ FocalRows(c) # {}}

\* The place of category c in the input table: the index of its first row.
InputPlace(c) ==
    CHOOSE i \in 1..Len(excel1.rows) :
        /\ excel1.rows[i].Product = c
        /\ \A j \in 1..(i - 1) : excel1.rows[j].Product # c

\* The categories of S in input-table order.
InInputOrder(S) ==
    LET PlaceLess(a, b) == InputPlace(a) < InputPlace(b)
        Any == CHOOSE f \in [1..Cardinality(S) -> S] :
                   \A c \in S : \E i \in DOMAIN f : f[i] = c
    IN  StableSort(Any, PlaceLess)

CompetitorRank(c, name) == (CHOOSE r \in CompetitorRows(c, name) : TRUE).rank

\* The categories of S by ascending rank of the competitor, equal ranks in
\* input-table order.
InRankOrder(S, name) ==
    LET RankOrPlaceLess(a, b) == CompetitorRank(a, name) < CompetitorRank(b, name)
    IN  StableSort(InInputOrder(S), RankOrPlaceLess)

KnownCompetitors == {r.source_normalized : r \in TableRows}

\* C17: competitor_detail(name) with a name that occurs in no row fails
\* with CompetitorNotFoundError; no result object is returned for an
\* unknown competitor.
C17_UnknownCompetitorFails ==
    (result.op = "competitor_detail" /\ result.args[1] \notin KnownCompetitors) =>
        /\ result.status = "error"
        /\ result.error = "CompetitorNotFoundError"

\* C18: predict(category, p, c) fails with the category-not-found error
\* (ValueError "Category not found" in the code) whenever the category has
\* no row in the ranking table, for every p and c, and returns a prediction
\* for every category that has at least one row.
C18_PredictCategoryNotFound ==
    result.op = "predict" =>
        LET category == result.args[1]
        IN  /\ RowsOf(category) = {} =>
                  /\ result.status = "error"
                  /\ result.error = "ValueError"
            /\ RowsOf(category) # {} =>
                  /\ result.status = "ok"
                  /\ result.value.category = category
                  /\ result.value.products_to_add = result.args[2]
                  /\ result.value.citations_needed = result.args[3]

\* A request with the largest investment for a category that is missing
\* from a table that has rows of another category.
C18_Witness ==
    /\ result.op = "predict"
    /\ result.status = "error"
    /\ result.args = <<"Toys", MaxProductsToAdd, MaxCitationsNeeded>>
    /\ RowsOf("Toys") = {}
    /\ RowsOf("Audio") # {}

\* C19: overview_metrics() on a ranking table with zero categories fails
\* with EmptyDatasetError; it neither divides by zero nor returns metrics.
C19_EmptyDatasetError ==
    (result.op = "overview" /\ TableCategories = {}) =>
        /\ result.status = "error"
        /\ result.error = "EmptyDatasetError"

PriorityRows == result.value.critical \o result.value.medium \o result.value.low

\* C20: priority_score = min(100, 2 x gap + 10 x (focal rank - 1)) for the
\* gap the function computes, reported to two decimals, and never above
\* 100; a focal row of rank 2 with score 0.40 against a winner with 0.50 has
\* gap_percentage 10.0, severity Medium and priority_score 30.0.
C20_PriorityScore ==
    (result.op = "priority" /\ result.status = "ok") =>
        \A i \in 1..Len(PriorityRows) :
            LET e == PriorityRows[i]
                c == e.category
                rank == FocalRow(c).rank
                exact == Min2(100000, 2 * GapOf(c) + 10000 * (rank - 1))
            IN  /\ ReportedAs(exact, e.priority_score, 10)
                /\ e.priority_score <= 100000
                /\ (/\ rank = 2
                    /\ FocalRow(c).score_norm = 40000
                    /\ LowestRankRow(c).score_norm = 50000)
                   => /\ e.gap_percentage = 10000
                      /\ e.severity = "Medium"
                      /\ e.priority_score = 30000

\* The scenario of the claim next to a category whose score is capped at 100.
C20_Witness ==
    /\ result.op = "priority"
    /\ result.status = "ok"
    /\ Len(result.value.medium) = 1
    /\ result.value.medium[1].category = "Toys"
    /\ result.value.medium[1].current_rank = 2
    /\ FocalRow("Toys").score_norm = 40000
    /\ LowestRankRow("Toys").score_norm = 50000
    /\ result.value.medium[1].priority_score = 30000
    /\ Len(result.value.critical) = 1
    /\ 2 * GapOf("Audio") + 10000 > 100000
    /\ result.value.critical[1].priority_score = 100000

(***************************************************************************)
(* Citation visibility and the two domain extractors                       *)
(***************************************************************************)
\* Every domain occurrence the extractor yields from the Citation Table.
ExtractedDomains ==
    ExtractDomainsFromCitations([i \in 1..Len(excel3.rows) |-> excel3.rows[i].citations])

FocalOccurrences ==
    Cardinality({k \in 1..Len(ExtractedDomains) : MentionsAmazon(ExtractedDomains[k])})

\* C21: citation_visibility() counts every extracted domain occurrence
\* once, as focal when the domain contains the focal name and as competitor
\* otherwise, so focal + competitor = total citations; visibility_ratio is
\* competitor count / focal count, 0 when the focal count is 0, and both
\* percentages are 0 when there are no citations.
C21_CitationVisibility ==
    result.op = "citation_visibility" =>
        /\ result.status = "ok"
        /\ LET v == result.value
               focal == FocalOccurrences
               other == Len(ExtractedDomains) - FocalOccurrences
           IN  /\ v.amazon_mentions = focal
               /\ v.competitor_mentions = other
               /\ v.total_citations = focal + other
               /\ focal > 0 => v.visibility_ratio.num * focal = other * v.visibility_ratio.den
               /\ focal = 0 => v.visibility_ratio.num = 0
               /\ (focal + other = 0) =>
                     /\ v.amazon_percentage.num = 0
                     /\ v.competitor_percentage.num = 0

(***************************************************************************)
(* The five leadership reports over one pair of tables                     *)
(***************************************************************************)
\* Two categories of at most one competitor each, with or without a focal
\* row.
LeadershipRaw ==
    {toys \o audio :
        toys \in CategoryShapes("Toys", {"amazon"}, 1),
        audio \in CategoryShapes("Audio", {"Amazon", "amazon"}, 1)}

\* The Product-Detail Table is empty or lists three products per category.
LeadershipDetails ==
    {<<>>, DetailRowsOf("Audio", 3) \o DetailRowsOf("Toys", 3)}

InitLeadership ==
    /\ rawScores \in LeadershipRaw
    /\ excel1 = RankScript(rawScores)
    /\ excel2 \in {File(DetailColumns, rows) : rows \in LeadershipDetails}
    /\ excel3 = NoFile
    /\ result = NoResult
    /\ calls = NoCalls

NextLeadership ==
    \/ Quadrants
    \/ Heatmap
    \/ Priority
    \/ QuickWins
    \/ Battlegrounds

SpecLeadership == InitLeadership /\ [][NextLeadership]_vars

LeadershipReports == {"quadrants", "heatmap", "priority", "quick_wins", "battlegrounds"}

\* The categories a leadership report lists.
ReportCategories ==
    IF result.op = "priority"
    THEN BucketCategories(result.value.critical)
         \cup BucketCategories(result.value.medium)
         \cup BucketCategories(result.value.low)
    ELSE {result.value[i].category : i \in 1..Len(result.value)}

\* C22: a category without a focal-source row appears in none of the five
\* leadership reports (quadrants, heatmap, priority buckets, quick wins,
\* battlegrounds); quadrants and heatmap contain exactly the categories
\* that have a focal-source row.
C22_FocalAbsentExcluded ==
    result.op \in LeadershipReports =>
        /\ result.status = "ok"
        /\ \A c \in ReportCategories : c \in TableCategories /\ FocalRows(c) # {}
        /\ result.op \in {"quadrants", "heatmap"} => ReportCategories = FocalCategories

\* The heatmap of a table in which "Toys" has a competitor and no focal
\* row, while the focal source is second in "Audio".
C22_Witness ==
    /\ result.op = "heatmap"
    /\ result.status = "ok"
    /\ RowsOf("Toys") # {}
    /\ FocalRows("Toys") = {}
    /\ FocalRows("Audio") # {}
    /\ FocalRow("Audio").rank = 2
    /\ ReportCategories = {"Audio"}

\* The sum of categories_dominated over the entries of a threat analysis.
ThreatTotal(r) ==
    SumSeq([i \in 1..Len(r.value) |-> r.value[i].categories_dominated])

\* The number of categories in the three lists of a priority result.
PriorityTotal(r) ==
    Len(r.value.critical) + Len(r.value.medium) + Len(r.value.low)

\* C27: on a table with dense ranks the categories_dominated of
\* threat_analysis(), summed over all competitors, equal the number of
\* categories in the three priority lists, whichever of the two queries runs
\* first; a category is recorded as a competitor win exactly when the focal
\* source is present in it with rank > 1.
C27_ThreatsMatchPriority ==
    [][/\ (result.op = "threats" /\ result'.op = "priority")
            => ThreatTotal(result) = PriorityTotal(result')
       /\ (result.op = "priority" /\ result'.op = "threats")
            => ThreatTotal(result') = PriorityTotal(result)
       /\ result'.op = "threats"
            => /\ UNION {Range(result'.value[i].dominated_categories) :
                            i \in 1..Len(result'.value)} = Eligible'
               /\ ThreatTotal(result') = Cardinality(Eligible')]_vars

\* A threat analysis of three categories:
\* two competitors share the two categories in which the focal source is
\* below rank 1, and the third category has no focal row.
C27_Witness ==
    /\ result.op = "threats"
    /\ result.status = "ok"
    /\ Len(result.value) = 2
    /\ ThreatTotal(result) = 2
    /\ Cardinality(TableCategories) = 3
    /\ \E c \in TableCategories : FocalRows(c) = {}

\* C28 as stated: predict(category, 0, 0) reports no change in both
\* branches: predicted_rank = current_rank, revenue impact 0, investment 0
\* and roi_multiplier 0, with or without a focal row in the category.
C28_ZeroInvestmentNoChange ==
    (result.op = "predict" /\ result.status = "ok"
        /\ result.args[2] = 0 /\ result.args[3] = 0) =>
        /\ result.value.predicted_rank = result.value.current_rank
        /\ result.value.revenue_impact_monthly = 0
        /\ result.value.investment_required = 0
        /\ result.value.roi_multiplier = 0

\* C28 amended: predict(category, 0, 0) reports investment 0 and
\* roi_multiplier 0 in both branches; with a focal row predicted_rank =
\* current_rank and the revenue impact is 0; without one current_rank is
\* rows + 1, predicted_rank is rows and the revenue impact is 10000.
C28_ZeroInvestment ==
    (result.op = "predict" /\ result.status = "ok"
        /\ result.args[2] = 0 /\ result.args[3] = 0) =>
        LET category == result.args[1]
            rows == Cardinality(RowsOf(category))
        IN  /\ result.value.investment_required = 0
            /\ result.value.roi_multiplier = 0
            /\ FocalRows(category) # {} =>
                  /\ result.value.current_rank = FocalRow(category).rank
                  /\ result.value.predicted_rank = result.value.current_rank
                  /\ result.value.revenue_impact_monthly = 0
            /\ FocalRows(category) = {} =>
                  /\ result.value.current_rank = rows + 1
                  /\ result.value.predicted_rank = rows
                  /\ result.value.revenue_impact_monthly = 10000

\* predict("Audio", 0, 0) on a category of two competitors and no focal row.
C28_Witness ==
    /\ result.op = "predict"
    /\ result.status = "ok"
    /\ result.args = <<"Audio", 0, 0>>
    /\ FocalRows("Audio") = {}
    /\ Cardinality(RowsOf("Audio")) = 2
    /\ result.value.current_rank = 3
    /\ result.value.predicted_rank = 2

(***************************************************************************)
(* The ranking table endpoint                                              *)
(***************************************************************************)
\* "Audio" with croma twice, first and third, around the focal row.
RepeatedSourceTable ==
    <<RawRow("Audio", "croma", 27000, 1), RawRow("Audio", "croma", 7000, 1),
      RawRow("Audio", "amazon", 10000, 1)>>

RankingTableRaw ==
    {toys \o audio :
        toys \in {<<>>, CategoryRows("Toys", "amazon", 0, 0, 0),
                  CategoryRows("Toys", "amazon", 0, 1, 27000)},
        audio \in CategoryShapes("Audio", {"Amazon", "amazon"}, MaxRivals)}
    \cup {RepeatedSourceTable}

\* top_n is an unconstrained int of the route, 5 when it is not given.
DefaultTopN == 5

TopNs == (-1..(MaxRivals + 2)) \cup {DefaultTopN}

InitRankingTable ==
    /\ rawScores \in RankingTableRaw
    /\ excel1 = RankScript(rawScores)
    /\ excel2 = NoFile
    /\ excel3 = NoFile
    /\ result = NoResult
    /\ calls = NoCalls

RankingTable ==
    \E top_n \in TopNs :
        /\ result' = [GetMarketplaceRankings(excel1, top_n) EXCEPT !.args = <<top_n>>]
        /\ UNCHANGED <<rawScores, excel1, excel2, excel3, calls>>

NextRankingTable == RankingTable

SpecRankingTable == InitRankingTable /\ [][NextRankingTable]_vars

\* The rows of category c with rank <= n.
TopRows(c, n) == {r \in RowsOf(c) : r.rank <= n}

\* No source has two rows in category c.
DistinctSources(c) ==
    \A r1, r2 \in RowsOf(c) : r1.source_normalized = r2.source_normalized => r1 = r2

\* C26: get_marketplace_rankings(top_n) returns for every category exactly
\* the sources with a row of rank <= top_n, each mapped to its rank, and
\* omits a category without such a row; with dense ranks and distinct
\* sources a category of k rows has min(top_n, k) entries, with the ranks
\* 1..min(top_n, k); top_n <= 0 gives an empty result.
C26_MarketplaceRankings ==
    result.op = "ranking_table" =>
        /\ result.status = "ok"
        /\ LET n == result.args[1]
               out == result.value
           IN  /\ DOMAIN out = {c \in TableCategories : TopRows(c, n) # {}}
               /\ \A c \in DOMAIN out :
                     /\ DOMAIN out[c] = {r.source_normalized : r \in TopRows(c, n)}
                     /\ \A s \in DOMAIN out[c] :
                           \E r \in TopRows(c, n) :
                              r.source_normalized = s /\ r.rank = out[c][s]
                     /\ DistinctSources(c) =>
                           LET k == Cardinality(RowsOf(c))
                           IN  /\ Cardinality(DOMAIN out[c]) = Min2(n, k)
                               /\ {out[c][s] : s \in DOMAIN out[c]} = 1..Min2(n, k)
               /\ n <= 0 => DOMAIN out = {}

\* The two best of three sources of "Audio", next to "Toys".
C26_Witness ==
    /\ result.op = "ranking_table"
    /\ result.status = "ok"
    /\ result.args = <<2>>
    /\ Cardinality(RowsOf("Audio")) = 3
    /\ DistinctSources("Audio")
    /\ DOMAIN result.value = {"Audio", "Toys"}
    /\ Cardinality(DOMAIN result.value["Audio"]) = 2

\* How often the extractor of additional_service yields domain d.
ExtractedCount(d) ==
    Cardinality({k \in 1..Len(ExtractedDomains) : ExtractedDomains[k] = d})

\* C29: the two domain extractors agree: the frequency citation_sources()
\* gives a domain is the number of times extract_domains_from_citations
\* yields it, and every domain the extractor yields is listed unless the
\* cut-off has filled the list.
C29_ExtractorsAgree ==
    result.op = "citation_sources" =>
        /\ result.status = "ok"
        /\ LET out == result.value
               listed == {out[k].domain : k \in 1..Len(out)}
           IN  /\ \A k \in 1..Len(out) : out[k].frequency = ExtractedCount(out[k].domain)
               /\ Len(out) < Min2(result.args[1], ServiceTopSources) =>
                     listed = Range(ExtractedDomains)

(***************************************************************************)
(* The drill-down queries and the citation sources over all three files    *)
(***************************************************************************)
DrillDownRaw == ScenarioTables \cup CategoryShapes("Toys", {"amazon"}, 1)

DrillDownDetails == {<<>>, DetailRowsOf("Toys", 2)}

DrillDownCitations ==
    {<<CitationRow("Toys", Cell(t)), CitationRow("Audio", NaN)>> :
        t \in {ScenarioText, BracketText, QueryText}}

\* Categories asked for: two of the tables and one that is in no table.
BattleRequests == {"Audio", "Toys", "Games"}

InitDrillDown ==
    /\ rawScores \in DrillDownRaw
    /\ excel1 = RankScript(rawScores)
    /\ excel2 \in {File(DetailColumns, rows) : rows \in DrillDownDetails}
    /\ excel3 \in {File(CitationColumns, rows) : rows \in DrillDownCitations} \cup {NoFile}
    /\ result = NoResult
    /\ calls = NoCalls

CategoryBattleRequest ==
    \E category_name \in BattleRequests :
        /\ result' = [GetCategoryBattleDetails(excel1, excel2, excel3, category_name)
                          EXCEPT !.args = <<category_name>>]
        /\ UNCHANGED <<rawScores, excel1, excel2, excel3, calls>>

NextDrillDown ==
    \/ CategoryBattleRequest
    \/ CompetitorDetailRequest
    \/ CitationSources

SpecDrillDown == InitDrillDown /\ [][NextDrillDown]_vars

\* Some URL of the Citation Table is rejected by urlparse.
SomeUrlRejected ==
    \E i \in 1..Len(excel3.rows) :
        /\ ~excel3.rows[i].citations.isna
        /\ \E u \in Range(FindUrls(excel3.rows[i].citations.text, 1)) : UrlparseRaises(u)

\* The errors the three loaders raise on the present files.
LoadErrors ==
    {LoadRankingData(excel1).error, LoadProductDetailsData(excel2).error,
     LoadNoRankData(excel3).error} \ {""}

\* C25: an error or a missing lookup inside a query function fails the
\* whole query, and the error reaches the caller as it was raised:
\* citation_sources fails when a URL cannot be parsed, the category-battle
\* drill-down fails for a category of no row, competitor_detail fails for a
\* competitor of no row, and a failed query reports the error of the load
\* that failed.
C25_ErrorsFailTheQuery ==
    /\ (result.op = "citation_sources" /\ SomeUrlRejected) => result.status = "error"
    /\ (result.op = "category_battle" /\ result.args[1] \notin TableCategories) =>
           result.status = "error"
    /\ (result.op = "competitor_detail" /\ result.args[1] \notin KnownCompetitors) =>
           result.status = "error"
    /\ (result.op \in {"citation_sources", "category_battle", "competitor_detail"}
            /\ result.status = "error") => result.error \in LoadErrors

(***************************************************************************)
(* Requests in flight.  A request runs one query function: the function    *)
(* calls its loaders one after the other, each pd.read_excel giving the    *)
(* request a frame of its own, and then computes from those frames.  Steps *)
(* of different requests, and of a writer of the files, interleave.        *)
(***************************************************************************)
\* The loads of each query function, in the order of its code.
QueryLoads(query) ==
    CASE query = "heatmap" -> <<"load_ranking">>
      [] query = "quadrants" -> <<"load_ranking", "load_details">>
      [] query = "battlegrounds" -> <<"load_ranking", "load_details">>
      [] query = "category_battle" -> <<"load_ranking", "load_details", "load_no_rank">>
      [] OTHER -> <<>>

\* Where a request continues after the load at position pc succeeded.
AfterLoad(query, pc) ==
    LET loads == QueryLoads(query)
        k == CHOOSE i \in 1..Len(loads) : loads[i] = pc
    IN  IF k < Len(loads) THEN loads[k + 1] ELSE "compute"

ReadExcel_FirstRowOnly(file) == [file EXCEPT !.rows = Take(@, 1)]

\* pd.read_excel(file_path): the content of the file at the time of the read.
ReadExcel(file) == file

SourceAfterRead_Consumed(file) == [file EXCEPT !.rows = <<>>]

\* pd.read_excel opens the file for reading: the file stays as it was.
SourceAfterRead(file) == file

\* The query function on the frames the request has loaded.
RunQuery(query, args, df_rankings, df_details, df_no_rank) ==
    [(CASE query = "heatmap" -> GenerateCategoryHeatmap(df_rankings)
        [] query = "quadrants" -> GeneratePerformanceQuadrants(df_rankings, df_details)
        [] query = "battlegrounds" -> IdentifyBattlegrounds(df_rankings, df_details)
        [] query = "category_battle" ->
               GetCategoryBattleDetails(df_rankings, df_details, df_no_rank, args[1]))
     EXCEPT !.args = args]

\* A request whose load failed: the loader's error leaves the query function.
Failed(call, error) ==
    [call EXCEPT !.pc = "done",
                 !.output = [Err(call.query, error) EXCEPT !.args = call.args]]

Requests ==
    {[query |-> "heatmap", args |-> <<>>],
     [query |-> "quadrants", args |-> <<>>],
     [query |-> "battlegrounds", args |-> <<>>],
     [query |-> "category_battle", args |-> <<"Toys">>]}

Arrive ==
    \E id \in CallIds, request \in Requests :
        /\ calls[id].pc = "idle"
        /\ calls' = [calls EXCEPT ![id] =
                        [NoCall EXCEPT !.pc = "load_ranking",
                                       !.query = request.query,
                                       !.args = request.args]]
        /\ UNCHANGED <<rawScores, excel1, excel2, excel3, result>>

\* df = load_ranking_data()
ReadRanking ==
    \E id \in CallIds :
        /\ calls[id].pc = "load_ranking"
        /\ LET loaded == LoadRankingData(ReadExcel(excel1))
               call == calls[id]
           IN  calls' = [calls EXCEPT ![id] =
                            IF loaded.status = "error" THEN Failed(call, loaded.error)
                            ELSE [call EXCEPT !.pc = AfterLoad(call.query, "load_ranking"),
                                              !.df_rankings = ReadExcel(excel1)]]
        /\ excel1' = SourceAfterRead(excel1)
        /\ UNCHANGED <<rawScores, excel2, excel3, result>>

\* df_details = load_product_details_data()
ReadDetails ==
    \E id \in CallIds :
        /\ calls[id].pc = "load_details"
        /\ LET loaded == LoadProductDetailsData(ReadExcel(excel2))
               call == calls[id]
           IN  calls' = [calls EXCEPT ![id] =
                            IF loaded.status = "error" THEN Failed(call, loaded.error)
                            ELSE [call EXCEPT !.pc = AfterLoad(call.query, "load_details"),
                                              !.df_details = ReadExcel(excel2)]]
        /\ excel2' = SourceAfterRead(excel2)
        /\ UNCHANGED <<rawScores, excel1, excel3, result>>

\* df_no_rank = load_no_rank_data(): fails before the file is opened while
\* EXCEL_FILE_3 is None.
ReadNoRank ==
    \E id \in CallIds :
        /\ calls[id].pc = "load_no_rank"
        /\ LET loaded == LoadNoRankData(ReadExcel(excel3))
               call == calls[id]
           IN  calls' = [calls EXCEPT ![id] =
                            IF loaded.status = "error" THEN Failed(call, loaded.error)
                            ELSE [call EXCEPT !.pc = AfterLoad(call.query, "load_no_rank"),
                                              !.df_no_rank = ReadExcel(excel3)]]
        /\ UNCHANGED <<rawScores, excel1, excel2, excel3, result>>

\* The rest of the query function, on the request's own frames.
Return ==
    \E id \in CallIds :
        /\ calls[id].pc = "compute"
        /\ LET call == calls[id]
           IN  calls' = [calls EXCEPT ![id] =
                            [call EXCEPT !.pc = "done",
                                         !.output = RunQuery(call.query, call.args,
                                                             call.df_rankings,
                                                             call.df_details,
                                                             call.df_no_rank)]]
        /\ UNCHANGED <<rawScores, excel1, excel2, excel3, result>>

\* Two versions of the source: the Ranking Table input and the Product
\* Detail rows that belong together.
Versions ==
    {[raw |-> CategoryRows("Toys", "amazon", 40000, 1, 50000),
      details |-> DetailRowsOf("Toys", 2)],
     [raw |-> CategoryRows("Toys", "amazon", 40000, 1, 55000)
                \o CategoryRows("Audio", "amazon", 20000, 0, 0),
      details |-> DetailRowsOf("Toys", 5) \o DetailRowsOf("Audio", 3)]}

VersionFile1(v) == RankScript(v.raw)

VersionFile2(v) == File(DetailColumns, v.details)

(***************************************************************************)
(* Concurrent requests over an unchanged source                            *)
(***************************************************************************)
InitConcurrent ==
    /\ rawScores \in {v.raw : v \in Versions} \cup {<<>>}
    /\ excel1 = RankScript(rawScores)
    /\ excel2 \in {VersionFile2(v) : v \in Versions} \cup {NoFile}
    /\ excel3 \in {NoFile, File(CitationColumns, <<CitationRow("Toys", NaN)>>)}
    /\ result = NoResult
    /\ calls = NoCalls

NextConcurrent ==
    \/ Arrive
    \/ ReadRanking
    \/ ReadDetails
    \/ ReadNoRank
    \/ Return

SpecConcurrent == InitConcurrent /\ [][NextConcurrent]_vars

(***************************************************************************)
(* Concurrent requests while a writer replaces the files                   *)
(***************************************************************************)
InitWriter ==
    /\ rawScores \in {v.raw : v \in Versions}
    /\ excel1 = RankScript(rawScores)
    /\ excel2 \in {VersionFile2(v) : v \in {w \in Versions : w.raw = rawScores}}
    /\ excel3 = NoFile
    /\ result = NoResult
    /\ calls = NoCalls

\* rank.py run on a new input: the ranked file is replaced.
WriteRanking ==
    \E v \in Versions :
        /\ v.raw # rawScores
        /\ rawScores' = v.raw
        /\ excel1' = RankScript(v.raw)
        /\ UNCHANGED <<excel2, excel3, result, calls>>

\* Book1.xlsx is replaced.
WriteDetails ==
    \E v \in Versions :
        /\ VersionFile2(v) # excel2
        /\ excel2' = VersionFile2(v)
        /\ UNCHANGED <<rawScores, excel1, excel3, result, calls>>

NextWriter ==
    \/ Arrive
    \/ ReadRanking
    \/ ReadDetails
    \/ ReadNoRank
    \/ Return
    \/ WriteRanking
    \/ WriteDetails

SpecWriter == InitWriter /\ [][NextWriter]_vars

\* Requests that have their Ranking Table, or their Product-Detail Table.
HasRanking(id) == calls[id].pc \in {"load_details", "load_no_rank", "compute", "done"}

HasDetails(id) ==
    /\ "load_details" \in Range(QueryLoads(calls[id].query))
    /\ calls[id].pc \in {"load_no_rank", "compute", "done"}
    /\ LoadRankingData(calls[id].df_rankings).status = "ok"

C30_OneSourceVersion ==
    \A id \in CallIds :
        (calls[id].pc = "done" /\ Len(QueryLoads(calls[id].query)) > 1) =>
            \E v \in Versions :
                calls[id].output = RunQuery(calls[id].query, calls[id].args,
                                            VersionFile1(v), VersionFile2(v), excel3)

====
